---- MODULE Spec2Model ----
(***************************************************************************)
(* A model of the QKD simulation's key lifecycle manager                   *)
(* (secure_platform/backend/kms) and of its routing controllers            *)
(* (controller/sdn_controller.py, secure_platform/backend/                 *)
(* network_manager.py).                                                    *)
(*                                                                         *)
(* Error rates of key entries are exact rationals <<num, den>>; error      *)
(* rates of links are integers in units of 1/1000 (per mille).             *)
(* Timestamps are a logical clock: key_seq counts the keys created so far  *)
(* and a key created as the n-th key has created_at = n.                   *)
(***************************************************************************)
EXTENDS Integers, Sequences, FiniteSets, TLC

(***************************************************************************)
(* Bounds of the model                                                     *)
(***************************************************************************)
\* keys created in one behaviour of the key-pool specification
MaxKeys == 2
\* keys created in one behaviour of the pruning specification
MaxPruneKeys == 13
\* invalidation calls in one behaviour of the pruning specification
MaxSideCalls == 1
\* keys created before the two concurrent consumers start
MaxRaceKeys == 2
\* generate_key calls in one behaviour of the key-manager specification
MaxSessions == 2
\* operations called on the routing controller in one behaviour
MaxNetOps == 2

(***************************************************************************)
(* Program constants                                                       *)
(***************************************************************************)
\* the number of non-active entries add_key retains when it prunes
PruneKeep == 10
\* KeyPool.__init__'s default max_pool_size and main.py's pool_size
DefaultPoolSize == 50
\* the most bits _privacy_amplification returns
MaxFinalBits == 256

Pairs == {"alice:bob", "bob:carol"}
NoPair == "None"

\* a rational q = <<num, den>>, den > 0; QGe is the comparison that is not
\* strict
QGe(a, b) == a[1] * b[2] >= b[1] * a[2]

QGt(a, b) == a[1] * b[2] > b[1] * a[2]
\* KeyManager._qber_threshold and invalidate_compromised's default threshold
QberThreshold == <<11, 100>>

VARIABLES
    \* -- KeyPool --
    max_pool_size,   \* KeyPool._max_pool_size
    pools,           \* KeyPool._pools: pair -> sequence of key ids
    all_keys,        \* KeyPool._all_keys: the key ids it maps, in insertion order
    entries,         \* the KeyEntry objects, by key id (the n-th created has id n)
    key_seq,         \* keys created so far (the clock of created_at)
    ret,             \* the last completed operation: its name, arguments and result
    side_calls,     \* the calls MaxSideCalls bounds, so far
    \* -- concurrent consumers of KeyPool.consume_key --
    lock,            \* KeyPool._lock: 0 when free, else the thread holding it
    pc,              \* thread -> its position in consume_key
    arg,             \* thread -> the key id it was called with
    local,           \* thread -> its local variable `entry` (a key id, 0 for None)
    result,          \* thread -> what its call returned (a key id, 0 for None)
    at_call,         \* thread -> the status its key had when the call began
    \* -- KeyManager --
    session,         \* the session result the last generate_key returned
    km_sessions,     \* the number of entries of KeyManager._sessions
    km_alerts,       \* KeyManager._alerts
    km_alert_id,     \* KeyManager._alert_id
    \* -- protocol engine --
    engine,          \* a BB84Protocol, a Qubit or Photon, or an attack object
    eng_ret,         \* the last call on it: its name, arguments and result
    \* -- routing controller --
    impl,            \* which controller this is: "sdn" (SDNController) or "nm" (NetworkManager)
    nodes,           \* _nodes: node id -> node
    links,           \* _links: the links in insertion order; a link's id is <<src, dst>>
    active_routes,   \* _active_routes: <<src, dst>> -> path (<<>> when absent or empty)
    alerts,          \* _alerts: the RouteAlert log
    eve,             \* NetworkManager._eve
    smart_routing,   \* NetworkManager._smart_routing
    net_ops,         \* controller operations called so far
    net_ret          \* the last controller operation: its name, arguments and result

poolVars == <<max_pool_size, pools, all_keys, entries, key_seq, ret, side_calls>>
raceVars == <<lock, pc, arg, local, result, at_call>>
engVars == <<engine, eng_ret>>
kmVars == <<session, km_sessions, km_alerts, km_alert_id, engVars>>
netVars == <<impl, nodes, links, active_routes, alerts, eve, smart_routing,
             net_ops, net_ret>>
vars == <<poolVars, raceVars, kmVars, netVars>>

Threads == {1, 2}

(***************************************************************************)
(* KeyEntry                                                                *)
(***************************************************************************)
\* KeyEntry._bits_to_hex: pad to a multiple of 8 bits, pack big-endian into
\* bytes, print each byte as two hex digits (here: the digits' values)
RECURSIVE BitsToInt(_)
BitsToInt(bits) ==
    IF bits = <<>> THEN 0
    ELSE 2 * BitsToInt(SubSeq(bits, 1, Len(bits) - 1)) + bits[Len(bits)]

PadBits(bits) == bits \o [i \in 1..((8 - (Len(bits) % 8)) % 8) |-> 0]

BitsToHex(bits) ==
    LET padded == PadBits(bits)
        byte(i) == BitsToInt(SubSeq(padded, 8 * (i - 1) + 1, 8 * i))
    IN [j \in 1..(2 * (Len(padded) \div 8)) |->
            IF j % 2 = 1 THEN byte((j + 1) \div 2) \div 16
                         ELSE byte(j \div 2) % 16]

\* KeyEntry.__init__: a new entry is Active and has no used_at
NewEntry(pair, bits, qber, now) ==
    [user_pair  |-> pair,
     key_bits   |-> bits,
     key_hex    |-> BitsToHex(bits),
     status     |-> "active",
     qber       |-> qber,
     created_at |-> now,
     used_at    |-> "None"]

\* an entry that clear_pool dropped from the pool and from the id index
Dropped ==
    [user_pair  |-> NoPair,
     key_bits   |-> <<>>,
     key_hex    |-> <<>>,
     status     |-> "dropped",
     qber       |-> <<0, 1>>,
     created_at |-> 0,
     used_at    |-> "None"]

(***************************************************************************)
(* Helpers on sequences of key ids                                         *)
(***************************************************************************)
SeqToSet(s) == {s[i] : i \in 1..Len(s)}

RECURSIVE Filter(_, _)
\* the subsequence of s whose elements are in the set keep
Filter(s, keep) ==
    IF s = <<>> THEN <<>>
    ELSE IF Head(s) \in keep THEN <<Head(s)>> \o Filter(Tail(s), keep)
         ELSE Filter(Tail(s), keep)

RECURSIVE InsertByCreated(_, _, _)
\* insert k into the sorted sequence s after every element whose created_at
\* is not greater (Python's sorted is stable)
InsertByCreated(s, k, ents) ==
    IF s = <<>> THEN <<k>>
    ELSE IF ents[Head(s)].created_at <= ents[k].created_at
         THEN <<Head(s)>> \o InsertByCreated(Tail(s), k, ents)
         ELSE <<k>> \o s

RECURSIVE SortedByCreated(_, _)
\* sorted(s, key=lambda k: k.created_at)
SortedByCreated(s, ents) ==
    IF s = <<>> THEN <<>>
    ELSE InsertByCreated(SortedByCreated(SubSeq(s, 1, Len(s) - 1), ents),
                         s[Len(s)], ents)

\* s[-n:]
LastN(s, n) == IF Len(s) <= n THEN s ELSE SubSeq(s, Len(s) - n + 1, Len(s))

ActiveOf(pool, ents) == Filter(pool, {k \in SeqToSet(pool) : ents[k].status = "active"})
NonActiveOf(pool, ents) == Filter(pool, {k \in SeqToSet(pool) : ents[k].status /= "active"})

(***************************************************************************)
(* KeyPool operations.  Every operation runs under KeyPool._lock from its  *)
(* first statement to its last, so it is one atomic step here.             *)
(***************************************************************************)
Ret(op, pair, key, thr, out, ok) ==
    [op |-> op, pair |-> pair, key |-> key, thr |-> thr, out |-> out, ok |-> ok]

NoRet == Ret("none", NoPair, 0, <<0, 1>>, <<>>, FALSE)

\* add_key's pruning without the sort by creation time
PrunedUnsorted(pool, ents, limit) ==
    IF Len(pool) > limit
    THEN ActiveOf(pool, ents) \o LastN(NonActiveOf(pool, ents), PruneKeep)
    ELSE pool

\* add_key's enforcement of the pool size limit on the pool of one pair
Pruned(pool, ents, limit) ==
    IF Len(pool) > limit
    THEN ActiveOf(pool, ents)
            \o LastN(SortedByCreated(NonActiveOf(pool, ents), ents), PruneKeep)
    ELSE pool

\* the body of add_key: its effect on the pool
DoAddKey(pair, bits, qber) ==
    LET key_id == key_seq + 1
        ents   == Append(entries, NewEntry(pair, bits, qber, key_id))
        pool   == Append(pools[pair], key_id)
    IN  /\ key_seq' = key_id
        /\ entries' = ents
        /\ all_keys' = Append(all_keys, key_id)
        /\ pools' = [pools EXCEPT ![pair] = Pruned(pool, ents, max_pool_size)]
        /\ UNCHANGED max_pool_size

AddKey(pair, bits, qber) ==
    /\ DoAddKey(pair, bits, qber)
    /\ ret' = Ret("add_key", pair, key_seq + 1, <<0, 1>>, <<key_seq + 1>>, TRUE)

\* get_active_key returning the last Active entry of the pool
LastActive(pool, ents) ==
    LET act == ActiveOf(pool, ents)
    IN  IF act = <<>> THEN <<>> ELSE <<act[Len(act)]>>

\* the first Active entry of the pair's pool, as a sequence of at most one id
FirstActive(pool, ents) ==
    LET act == ActiveOf(pool, ents)
    IN  IF act = <<>> THEN <<>> ELSE <<Head(act)>>

GetActiveKey(pair) ==
    /\ ret' = Ret("get_active_key", pair, 0, <<0, 1>>,
                  FirstActive(pools[pair], entries), TRUE)
    /\ UNCHANGED <<max_pool_size, pools, all_keys, entries, key_seq>>

\* the entry consume_key may hand out: present in the id index and Active
Consumable(key_id, keys, ents) ==
    key_id \in SeqToSet(keys) /\ ents[key_id].status = "active"

\* the body of consume_key: its effect on the pool
DoConsumeKey(key_id) ==
    /\ IF Consumable(key_id, all_keys, entries)
       THEN entries' = [entries EXCEPT ![key_id].status = "used",
                                       ![key_id].used_at = "set"]
       ELSE UNCHANGED entries
    /\ UNCHANGED <<max_pool_size, pools, all_keys, key_seq>>

ConsumeKey(key_id) ==
    /\ DoConsumeKey(key_id)
    /\ ret' = IF Consumable(key_id, all_keys, entries)
              THEN Ret("consume_key", NoPair, key_id, <<0, 1>>, <<key_id>>, TRUE)
              ELSE Ret("consume_key", NoPair, key_id, <<0, 1>>, <<>>, FALSE)

\* get_key_hex: the material of any entry the id index holds, as a sequence
\* of at most one hex string
GetKeyHex(key_id) ==
    IF key_id \in SeqToSet(all_keys) THEN <<entries[key_id].key_hex>> ELSE <<>>

\* invalidate_compromised not comparing the rate at all
IsCompromisedWhenActive(e, qber_threshold) == e.status = "active"

\* invalidate_compromised comparing with >= instead of >
IsCompromisedByGe(e, qber_threshold) ==
    e.status = "active" /\ ~QGt(qber_threshold, e.qber)

\* the test invalidate_compromised applies to one entry
IsCompromisedBy(e, qber_threshold) ==
    e.status = "active" /\ QGt(e.qber, qber_threshold)

RECURSIVE InvalidateLoop(_, _, _, _)
\* the loop of invalidate_compromised over the id index, in its order;
\* yields <<entries, invalidated>>
InvalidateLoop(keys, ents, invalidated, qber_threshold) ==
    IF keys = <<>> THEN <<ents, invalidated>>
    ELSE LET k == Head(keys)
         IN  IF IsCompromisedBy(ents[k], qber_threshold)
             THEN InvalidateLoop(Tail(keys),
                                 [ents EXCEPT ![k].status = "compromised"],
                                 Append(invalidated, k), qber_threshold)
             ELSE InvalidateLoop(Tail(keys), ents, invalidated, qber_threshold)

\* the body of invalidate_compromised: its effect on the pool
DoInvalidateCompromised(qber_threshold) ==
    /\ entries' = InvalidateLoop(all_keys, entries, <<>>, qber_threshold)[1]
    /\ UNCHANGED <<max_pool_size, pools, all_keys, key_seq>>

\* the list invalidate_compromised returns
Invalidated(qber_threshold) ==
    InvalidateLoop(all_keys, entries, <<>>, qber_threshold)[2]

InvalidateCompromised(qber_threshold) ==
    /\ DoInvalidateCompromised(qber_threshold)
    /\ ret' = Ret("invalidate_compromised", NoPair, 0, qber_threshold,
                  Invalidated(qber_threshold), TRUE)

InvalidateKey(key_id) ==
    /\ IF key_id \in SeqToSet(all_keys)
       THEN /\ entries' = [entries EXCEPT ![key_id].status = "compromised"]
            /\ ret' = Ret("invalidate_key", NoPair, key_id, <<0, 1>>, <<>>, TRUE)
       ELSE /\ UNCHANGED entries
            /\ ret' = Ret("invalidate_key", NoPair, key_id, <<0, 1>>, <<>>, FALSE)
    /\ UNCHANGED <<max_pool_size, pools, all_keys, key_seq>>

\* the body of clear_pool(user_pair): drop the pair's pool and its ids from
\* the id index; clear_pool(None): drop everything
DoClearPool(user_pair) ==
    LET gone == IF user_pair = NoPair THEN SeqToSet(all_keys)
                ELSE SeqToSet(pools[user_pair])
    IN  /\ all_keys' = Filter(all_keys, SeqToSet(all_keys) \ gone)
        /\ pools' = IF user_pair = NoPair THEN [p \in Pairs |-> <<>>]
                    ELSE [pools EXCEPT ![user_pair] = <<>>]
        /\ entries' = [k \in DOMAIN entries |->
                          IF k \in SeqToSet(all_keys) /\ k \notin gone
                          THEN entries[k] ELSE Dropped]
        /\ UNCHANGED <<max_pool_size, key_seq>>

ClearPool(user_pair) ==
    /\ DoClearPool(user_pair)
    /\ ret' = Ret("clear_pool", user_pair, 0, <<0, 1>>, <<>>, TRUE)

(***************************************************************************)
(* The key pool driven through its whole interface                         *)
(***************************************************************************)
\* the pool sizes a pool is constructed with
PoolSizes == {1, 2}
\* key material handed to add_key
PoolBits == {<<1, 0, 1>>}
\* error rates handed to add_key: exactly 0.11, and 0.15
PoolQbers == {<<11, 100>>, <<3, 20>>}
\* thresholds handed to invalidate_compromised: the default 0.11 and 0.05
PoolThresholds == {QberThreshold, <<1, 20>>}
\* key ids handed to the operations: every id created so far, and 0, which
\* names no key
KeyIdInputs == 0..key_seq

RaceIdle ==
    /\ lock = 0
    /\ pc = [t \in Threads |-> "idle"]
    /\ arg = [t \in Threads |-> 0]
    /\ local = [t \in Threads |-> 0]
    /\ result = [t \in Threads |-> 0]
    /\ at_call = [t \in Threads |-> "none"]

EmptyPool ==
    /\ pools = [p \in Pairs |-> <<>>]
    /\ all_keys = <<>>
    /\ entries = <<>>
    /\ key_seq = 0
    /\ ret = NoRet
    /\ side_calls = 0

\* SessionResult's defaults
NoSession ==
    [sifted_key_alice |-> <<>>, sifted_key_bob |-> <<>>, qber |-> <<0, 1>>,
     eve_detected |-> FALSE, final_key |-> <<>>]

\* no protocol engine has been constructed, and none called
NoEngine == [class |-> "none"]
NoEngRet == [op |-> "none"]

EngineIdle ==
    /\ engine = NoEngine
    /\ eng_ret = NoEngRet

\* a KeyManager as constructed
KMNew ==
    /\ session = NoSession
    /\ km_sessions = 0
    /\ km_alerts = <<>>
    /\ km_alert_id = 0

KMFresh ==
    /\ KMNew
    /\ EngineIdle

\* EveStatus's defaults
NoEve ==
    [active |-> FALSE, attack_type |-> "none", target_links |-> <<>>,
     intercepted_count |-> 0, qber_impact |-> 0]

NoNetRet == [op |-> "none"]

\* no routing controller has been constructed
NetIdle ==
    /\ impl = "none"
    /\ nodes = <<>>
    /\ links = <<>>
    /\ active_routes = <<>>
    /\ alerts = <<>>
    /\ eve = NoEve
    /\ smart_routing = TRUE
    /\ net_ops = 0
    /\ net_ret = NoNetRet

InitPool ==
    /\ max_pool_size \in PoolSizes
    /\ EmptyPool
    /\ RaceIdle
    /\ KMFresh
    /\ NetIdle

PoolAddKey ==
    /\ key_seq < MaxKeys
    /\ \E pair \in Pairs, bits \in PoolBits, qber \in PoolQbers :
          AddKey(pair, bits, qber)
    /\ UNCHANGED <<side_calls, raceVars, kmVars, netVars>>

PoolGetActiveKey ==
    /\ \E pair \in Pairs : GetActiveKey(pair)
    /\ UNCHANGED <<side_calls, raceVars, kmVars, netVars>>

PoolConsumeKey ==
    /\ \E key_id \in KeyIdInputs : ConsumeKey(key_id)
    /\ UNCHANGED <<side_calls, raceVars, kmVars, netVars>>

PoolInvalidateCompromised ==
    /\ \E t \in PoolThresholds : InvalidateCompromised(t)
    /\ UNCHANGED <<side_calls, raceVars, kmVars, netVars>>

PoolInvalidateKey ==
    /\ \E key_id \in KeyIdInputs : InvalidateKey(key_id)
    /\ UNCHANGED <<side_calls, raceVars, kmVars, netVars>>

PoolClearPool ==
    /\ \E user_pair \in Pairs \cup {NoPair} : ClearPool(user_pair)
    /\ UNCHANGED <<side_calls, raceVars, kmVars, netVars>>

NextPool ==
    \/ PoolAddKey
    \/ PoolGetActiveKey
    \/ PoolConsumeKey
    \/ PoolInvalidateCompromised
    \/ PoolInvalidateKey
    \/ PoolClearPool

SpecPool == InitPool /\ [][NextPool]_vars

(***************************************************************************)
(* The pool of one pair grown until add_key prunes it.  Keys are consumed  *)
(* the way the platform consumes them (the key get_active_key returns);    *)
(* a bounded number of invalidations (invalidate_key of any key id,        *)
(* invalidate_compromised) comes in between.                               *)
(***************************************************************************)
PrunePair == "alice:bob"
PrunePoolSizes == {2}
PruneQber == <<3, 20>>

InitPrune ==
    /\ max_pool_size \in PrunePoolSizes
    /\ EmptyPool
    /\ RaceIdle
    /\ KMFresh
    /\ NetIdle

PruneAddKey ==
    /\ key_seq < MaxPruneKeys
    /\ AddKey(PrunePair, <<1, 0, 1>>, PruneQber)
    /\ UNCHANGED <<side_calls, raceVars, kmVars, netVars>>

PruneConsumeActive ==
    /\ \E key_id \in SeqToSet(FirstActive(pools[PrunePair], entries)) :
          ConsumeKey(key_id)
    /\ UNCHANGED <<side_calls, raceVars, kmVars, netVars>>

PruneInvalidateCompromised ==
    /\ side_calls < MaxSideCalls
    /\ InvalidateCompromised(QberThreshold)
    /\ side_calls' = side_calls + 1
    /\ UNCHANGED <<raceVars, kmVars, netVars>>

PruneInvalidateKey ==
    /\ side_calls < MaxSideCalls
    /\ \E key_id \in 1..key_seq : InvalidateKey(key_id)
    /\ side_calls' = side_calls + 1
    /\ UNCHANGED <<raceVars, kmVars, netVars>>

NextPrune ==
    \/ PruneAddKey
    \/ PruneConsumeActive
    \/ PruneInvalidateCompromised
    \/ PruneInvalidateKey

SpecPrune == InitPrune /\ [][NextPrune]_vars

(***************************************************************************)
(* Two threads calling consume_key, statement by statement.  `with         *)
(* self._lock` blocks until the lock is free and releases it when the      *)
(* body returns.                                                           *)
(***************************************************************************)
StatusOf(key_id) ==
    IF key_id \in SeqToSet(all_keys) THEN entries[key_id].status ELSE "absent"

\* a lock that never blocks
CanAcquireAlways(l) == TRUE

\* Lock.acquire proceeds only when no thread holds the lock
CanAcquire(l) == l = 0

InitRace ==
    /\ max_pool_size = DefaultPoolSize
    /\ EmptyPool
    /\ RaceIdle
    /\ KMFresh
    /\ NetIdle

\* keys are added while no consume_key call is in progress
RaceAddKey ==
    /\ \A t \in Threads : pc[t] = "idle"
    /\ key_seq < MaxRaceKeys
    /\ AddKey("alice:bob", <<1, 0, 1>>, <<0, 1>>)
    /\ UNCHANGED <<side_calls, raceVars, kmVars, netVars>>

\* a thread calls consume_key(key_id)
RaceCall(t) ==
    /\ pc[t] = "idle"
    /\ \E key_id \in KeyIdInputs :
          /\ arg' = [arg EXCEPT ![t] = key_id]
          /\ at_call' = [at_call EXCEPT ![t] = StatusOf(key_id)]
    /\ pc' = [pc EXCEPT ![t] = "acquire"]
    /\ UNCHANGED <<poolVars, kmVars, netVars, lock, local, result>>

\* with self._lock:
RaceAcquire(t) ==
    /\ pc[t] = "acquire"
    /\ CanAcquire(lock)
    /\ lock' = t
    /\ pc' = [pc EXCEPT ![t] = "get"]
    /\ UNCHANGED <<poolVars, kmVars, netVars, arg, local, result, at_call>>

\* entry = self._all_keys.get(key_id)
RaceGet(t) ==
    /\ pc[t] = "get"
    /\ local' = [local EXCEPT ![t] = IF arg[t] \in SeqToSet(all_keys) THEN arg[t] ELSE 0]
    /\ pc' = [pc EXCEPT ![t] = "check"]
    /\ UNCHANGED <<poolVars, kmVars, netVars, lock, arg, result, at_call>>

\* if entry and entry.status == KeyStatus.ACTIVE:
RaceCheck(t) ==
    /\ pc[t] = "check"
    /\ pc' = [pc EXCEPT ![t] =
                IF local[t] /= 0 /\ entries[local[t]].status = "active"
                THEN "set_status" ELSE "return_none"]
    /\ UNCHANGED <<poolVars, kmVars, netVars, lock, arg, local, result, at_call>>

\* entry.status = KeyStatus.USED
RaceSetStatus(t) ==
    /\ pc[t] = "set_status"
    /\ entries' = [entries EXCEPT ![local[t]].status = "used"]
    /\ pc' = [pc EXCEPT ![t] = "set_used_at"]
    /\ UNCHANGED <<max_pool_size, pools, all_keys, key_seq, ret, side_calls,
                   kmVars, netVars, lock, arg, local, result, at_call>>

\* entry.used_at = datetime.now(timezone.utc).isoformat()
RaceSetUsedAt(t) ==
    /\ pc[t] = "set_used_at"
    /\ entries' = [entries EXCEPT ![local[t]].used_at = "set"]
    /\ pc' = [pc EXCEPT ![t] = "return_entry"]
    /\ UNCHANGED <<max_pool_size, pools, all_keys, key_seq, ret, side_calls,
                   kmVars, netVars, lock, arg, local, result, at_call>>

\* return entry (leaving the with block releases the lock)
RaceReturnEntry(t) ==
    /\ pc[t] = "return_entry"
    /\ result' = [result EXCEPT ![t] = local[t]]
    /\ lock' = 0
    /\ pc' = [pc EXCEPT ![t] = "done"]
    /\ UNCHANGED <<poolVars, kmVars, netVars, arg, local, at_call>>

\* return None (leaving the with block releases the lock)
RaceReturnNone(t) ==
    /\ pc[t] = "return_none"
    /\ result' = [result EXCEPT ![t] = 0]
    /\ lock' = 0
    /\ pc' = [pc EXCEPT ![t] = "done"]
    /\ UNCHANGED <<poolVars, kmVars, netVars, arg, local, at_call>>

\* the caller takes the result; the thread is free for its next call
RaceFinish(t) ==
    /\ pc[t] = "done"
    /\ pc' = [pc EXCEPT ![t] = "idle"]
    /\ arg' = [arg EXCEPT ![t] = 0]
    /\ local' = [local EXCEPT ![t] = 0]
    /\ result' = [result EXCEPT ![t] = 0]
    /\ at_call' = [at_call EXCEPT ![t] = "none"]
    /\ UNCHANGED <<poolVars, kmVars, netVars, lock>>

NextRace ==
    \/ RaceAddKey
    \/ \E t \in Threads : RaceCall(t)
    \/ \E t \in Threads : RaceAcquire(t)
    \/ \E t \in Threads : RaceGet(t)
    \/ \E t \in Threads : RaceCheck(t)
    \/ \E t \in Threads : RaceSetStatus(t)
    \/ \E t \in Threads : RaceSetUsedAt(t)
    \/ \E t \in Threads : RaceReturnEntry(t)
    \/ \E t \in Threads : RaceReturnNone(t)
    \/ \E t \in Threads : RaceFinish(t)

SpecRace == InitRace /\ [][NextRace]_vars

\* C1: when two consume_key calls for one key id that was Active when each
\* of them began have both returned, exactly one returned the entry, the
\* other returned None, and the entry is Used
C1_ExactlyOneConsumer ==
    (/\ pc[1] = "done" /\ pc[2] = "done"
     /\ arg[1] = arg[2]
     /\ at_call[1] = "active" /\ at_call[2] = "active")
    => /\ \/ result[1] = arg[1] /\ result[2] = 0
          \/ result[1] = 0 /\ result[2] = arg[2]
       /\ entries[arg[1]].status = "used"
       /\ entries[arg[1]].used_at = "set"

\* C1's case: both calls, begun on the same Active entry, have returned
C1_Witness ==
    /\ pc[1] = "done" /\ pc[2] = "done"
    /\ arg[1] = arg[2]
    /\ at_call[1] = "active" /\ at_call[2] = "active"
    /\ result[2] = arg[2]

(***************************************************************************)
(* KeyManager.  generate_key runs one BB84 session to completion; the      *)
(* session enters here as the sifted keys of the two parties and the       *)
(* SHA-256 digest privacy amplification draws its bits from.               *)
(***************************************************************************)
Min(a, b) == IF a <= b THEN a ELSE b

\* the positions where the two keys differ
Mismatches(alice_key, bob_key) ==
    {i \in 1..Min(Len(alice_key), Len(bob_key)) : alice_key[i] /= bob_key[i]}

\* _calculate_qber
CalculateQber(alice_key, bob_key) ==
    IF alice_key = <<>> THEN <<0, 1>>
    ELSE <<Cardinality(Mismatches(alice_key, bob_key)), Len(alice_key)>>

\* _privacy_amplification: the first min(len // 2, 256) bits of the digest;
\* the variant does not halve the length
PrivacyAmplificationWhole(sifted_key, digest) ==
    IF sifted_key = <<>> THEN <<>>
    ELSE SubSeq(digest, 1, Min(Len(sifted_key), MaxFinalBits))

PrivacyAmplification(sifted_key, digest) ==
    IF sifted_key = <<>> THEN <<>>
    ELSE SubSeq(digest, 1, Min(Len(sifted_key) \div 2, MaxFinalBits))

\* BB84Protocol.summarise, from the sifted keys on
Summarise(sifted_alice, sifted_bob, digest) ==
    LET qber     == CalculateQber(sifted_alice, sifted_bob)
        detected == QGt(qber, QberThreshold)
    IN  [sifted_key_alice |-> sifted_alice,
         sifted_key_bob   |-> sifted_bob,
         qber             |-> qber,
         eve_detected     |-> detected,
         final_key        |-> IF ~detected /\ sifted_alice /= <<>>
                              THEN PrivacyAmplification(sifted_alice, digest)
                              ELSE <<>>]

\* generate_key storing whatever an undetected session produced
StoresKeyUnlessDetected(res) == ~res.eve_detected

\* generate_key's test for storing the key of a session
StoresKey(res) == res.final_key /= <<>> /\ ~res.eve_detected

\* _raise_alert
RaiseAlert(severity, qber) ==
    /\ km_alert_id' = km_alert_id + 1
    /\ km_alerts' = Append(km_alerts,
                           [id |-> km_alert_id + 1, severity |-> severity, qber |-> qber])

GenerateKey(user_pair, res) ==
    /\ session' = res
    /\ km_sessions' = km_sessions + 1
    /\ IF StoresKey(res)
       THEN /\ DoAddKey(user_pair, res.final_key, res.qber)
            /\ ret' = Ret("generate_key", user_pair, key_seq + 1, <<0, 1>>,
                          <<key_seq + 1>>, TRUE)
            /\ UNCHANGED <<km_alerts, km_alert_id>>
       ELSE /\ UNCHANGED <<max_pool_size, pools, all_keys, entries, key_seq>>
            /\ ret' = Ret("generate_key", user_pair, 0, <<0, 1>>, <<>>, TRUE)
            /\ IF res.eve_detected
               THEN RaiseAlert("critical", res.qber)
               ELSE UNCHANGED <<km_alerts, km_alert_id>>

\* get_session_key
GetSessionKey(user_pair) ==
    /\ ret' = Ret("get_session_key", user_pair, 0, <<0, 1>>,
                  FirstActive(pools[user_pair], entries), TRUE)
    /\ UNCHANGED <<max_pool_size, pools, all_keys, entries, key_seq, kmVars>>

\* consume_session_key: the hex material of the consumed entry, or None
ConsumeSessionKey(key_id) ==
    /\ DoConsumeKey(key_id)
    /\ ret' = IF Consumable(key_id, all_keys, entries)
              THEN Ret("consume_session_key", NoPair, key_id, <<0, 1>>,
                       entries[key_id].key_hex, TRUE)
              ELSE Ret("consume_session_key", NoPair, key_id, <<0, 1>>, <<>>, FALSE)
    /\ UNCHANGED kmVars

\* bytes.fromhex
HexToBytes(hex) == [i \in 1..(Len(hex) \div 2) |-> 16 * hex[2 * i - 1] + hex[2 * i]]

RECURSIVE XorBits(_, _, _)
\* a ^ b on n-bit numbers
XorBits(a, b, n) ==
    IF n = 0 THEN 0
    ELSE 2 * XorBits(a \div 2, b \div 2, n - 1) + ((a + b) % 2)

\* _xor_encrypt: the message XORed with the key bytes, repeated as needed
XorEncrypt(message, key_hex) ==
    LET key_bytes == HexToBytes(key_hex)
    IN  [i \in 1..Len(message) |->
            XorBits(message[i], key_bytes[((i - 1) % Len(key_bytes)) + 1], 8)]

\* the ciphertext of AES-256-GCM under a random nonce, which is opaque here
AesOpaque == <<-1>>

\* encrypt_message: fails ("Key not found") when get_key_hex returns nothing
\* or an empty string; the pool is left as it is
EncryptMessage(plaintext, key_id, method) ==
    LET found == GetKeyHex(key_id)
        ok    == found /= <<>> /\ found[1] /= <<>>
    IN  /\ ret' = Ret("encrypt_message", NoPair, key_id, <<0, 1>>,
                      IF ~ok THEN <<>>
                      ELSE IF method = "aes" THEN AesOpaque
                      ELSE XorEncrypt(plaintext, found[1]),
                      ok)
        /\ UNCHANGED <<max_pool_size, pools, all_keys, entries, key_seq, kmVars>>

\* handle_qber_alert
HandleQberAlert(qber) ==
    IF QGt(qber, QberThreshold)
    THEN /\ DoInvalidateCompromised(QberThreshold)
         /\ ret' = Ret("handle_qber_alert", NoPair, 0, qber,
                       Invalidated(QberThreshold), TRUE)
         /\ IF Invalidated(QberThreshold) /= <<>>
            THEN RaiseAlert("critical", qber)
            ELSE UNCHANGED <<km_alerts, km_alert_id>>
         /\ UNCHANGED <<session, km_sessions, engVars>>
    ELSE /\ ret' = Ret("handle_qber_alert", NoPair, 0, qber, <<>>, TRUE)
         /\ UNCHANGED <<max_pool_size, pools, all_keys, entries, key_seq, kmVars>>

\* KeyManager.clear_pool
KMClearPool(user_pair) ==
    /\ DoClearPool(user_pair)
    /\ ret' = Ret("clear_pool", user_pair, 0, <<0, 1>>, <<>>, TRUE)
    /\ UNCHANGED kmVars

\* the sifted lengths of the sessions run
SiftedLengths == {0, 1, 2, 10}
\* a session of n sifted bits with e errors
SiftedAlice(n) == [i \in 1..n |-> 0]
SiftedBob(n, e) == [i \in 1..n |-> IF i <= e THEN 1 ELSE 0]
\* the digests privacy amplification draws from
Digests == {[i \in 1..MaxFinalBits |-> 0], [i \in 1..MaxFinalBits |-> i % 2]}
\* the error rates reported to handle_qber_alert: 0.05 and 0.25
AlertQbers == {<<1, 20>>, <<1, 4>>}
\* the message encrypted: "Hi"
Plaintexts == {<<72, 105>>}
KMPair == "alice:bob"

InitKM ==
    /\ max_pool_size = DefaultPoolSize
    /\ EmptyPool
    /\ RaceIdle
    /\ KMFresh
    /\ NetIdle

KMGenerateKey ==
    /\ km_sessions < MaxSessions
    /\ \E n \in SiftedLengths : \E e \in 0..n : \E digest \in Digests :
          GenerateKey(KMPair, Summarise(SiftedAlice(n), SiftedBob(n, e), digest))
    /\ UNCHANGED <<side_calls, engVars, raceVars, netVars>>

KMGetSessionKey ==
    /\ GetSessionKey(KMPair)
    /\ UNCHANGED <<side_calls, raceVars, netVars>>

KMConsumeSessionKey ==
    /\ \E key_id \in KeyIdInputs : ConsumeSessionKey(key_id)
    /\ UNCHANGED <<side_calls, raceVars, netVars>>

KMEncryptMessage ==
    /\ \E key_id \in KeyIdInputs, method \in {"otp", "aes"}, plaintext \in Plaintexts :
          EncryptMessage(plaintext, key_id, method)
    /\ UNCHANGED <<side_calls, raceVars, netVars>>

KMHandleQberAlert ==
    /\ \E qber \in AlertQbers : HandleQberAlert(qber)
    /\ UNCHANGED <<side_calls, raceVars, netVars>>

KMClear ==
    /\ \E user_pair \in {KMPair, NoPair} : KMClearPool(user_pair)
    /\ UNCHANGED <<side_calls, raceVars, netVars>>

NextKM ==
    \/ KMGenerateKey
    \/ KMGetSessionKey
    \/ KMConsumeSessionKey
    \/ KMEncryptMessage
    \/ KMHandleQberAlert
    \/ KMClear

SpecKM == InitKM /\ [][NextKM]_vars

\* C4: generate_key adds exactly one entry, Active and holding the session's
\* final key, to the pair's pool when the session is not detected and its
\* final key is not empty, and returns that key; otherwise it adds no entry,
\* changes none and returns no key
C4_GenerateStoresIffSecure ==
    [][km_sessions' = km_sessions + 1 =>
          LET res == session'
              p   == ret'.pair
              new == key_seq + 1
          IN  IF ~res.eve_detected /\ res.final_key /= <<>>
              THEN /\ ret'.out = <<new>>
                   /\ DOMAIN entries' = DOMAIN entries \cup {new}
                   /\ \A k \in DOMAIN entries : entries'[k] = entries[k]
                   /\ entries'[new].status = "active"
                   /\ entries'[new].user_pair = p
                   /\ entries'[new].key_bits = res.final_key
                   /\ all_keys' = Append(all_keys, new)
                   /\ new \in SeqToSet(pools'[p])
                   /\ SeqToSet(pools'[p]) \ {new} \subseteq SeqToSet(pools[p])
                   /\ \A q \in Pairs \ {p} : pools'[q] = pools[q]
              ELSE /\ ret'.out = <<>>
                   /\ entries' = entries
                   /\ all_keys' = all_keys
                   /\ pools' = pools]_vars

\* C4's case: a session with a non-zero error rate below the detection
\* threshold stored its final key
C4_Witness ==
    /\ ret.op = "generate_key"
    /\ ret.out /= <<>>
    /\ entries[ret.key].key_bits = session.final_key
    /\ session.qber[1] > 0

\* C8: encrypt_message succeeds only with a key whose status is Active
C8_NoEncryptAfterUse ==
    (ret.op = "encrypt_message" /\ ret.ok) => entries[ret.key].status = "active"

(***************************************************************************)
(* Claims about the key pool                                               *)
(***************************************************************************)
KeySet == SeqToSet(all_keys)

\* C2: the only status changes of an entry the pool still holds are
\* Active -> Used and Active -> Compromised
C2_OneDirectional ==
    [][\A k \in DOMAIN entries :
          (k \in SeqToSet(all_keys') /\ entries'[k].status /= entries[k].status)
             => /\ entries[k].status = "active"
                /\ entries'[k].status \in {"used", "compromised"}]_vars

\* C3: invalidate_compromised(t) turns exactly the Active entries with error
\* rate > t to Compromised, returns exactly their ids (each once) and leaves
\* every other entry, the pools and the id index as they were
C3_InvalidateExact ==
    [][ret'.op = "invalidate_compromised" =>
          LET hit == {k \in DOMAIN entries :
                         /\ entries[k].status = "active"
                         /\ QGt(entries[k].qber, ret'.thr)}
          IN  /\ DOMAIN entries' = DOMAIN entries
              /\ \A k \in hit :
                    entries'[k] = [entries[k] EXCEPT !.status = "compromised"]
              /\ \A k \in DOMAIN entries \ hit : entries'[k] = entries[k]
              /\ SeqToSet(ret'.out) = hit
              /\ Len(ret'.out) = Cardinality(hit)
              /\ pools' = pools
              /\ all_keys' = all_keys]_vars

\* C3's case: a call that invalidated an entry and left alone a Used entry or
\* an Active entry whose error rate equals the threshold
C3_Witness ==
    /\ ret.op = "invalidate_compromised"
    /\ ret.out /= <<>>
    /\ \E k \in KeySet :
          \/ entries[k].status = "used"
          \/ entries[k].status = "active" /\ entries[k].qber = ret.thr

\* the earliest-created Active entry of a pair, as a sequence of at most one id
EarliestActive(pair) ==
    LET act == {k \in KeySet : /\ entries[k].user_pair = pair
                               /\ entries[k].status = "active"}
    IN  IF act = {} THEN <<>>
        ELSE <<CHOOSE k \in act :
                   \A j \in act : entries[k].created_at <= entries[j].created_at>>

\* C5: get_active_key returns the earliest-created Active entry of the pair
\* (nothing when there is none) and changes no entry, no pool and not the id
\* index
C5_OldestActive ==
    /\ [](ret.op = "get_active_key" => ret.out = EarliestActive(ret.pair))
    /\ [][ret'.op = "get_active_key" =>
             /\ entries' = entries
             /\ pools' = pools
             /\ all_keys' = all_keys]_vars

\* C5's case: the key returned stands, in a pool that pruning reordered,
\* before a non-active entry that was created earlier
C5_Witness ==
    /\ ret.op = "get_active_key"
    /\ ret.out /= <<>>
    /\ LET pool == pools[ret.pair]
       IN  \E i, j \in 1..Len(pool) :
              /\ i < j
              /\ pool[i] = ret.out[1]
              /\ entries[pool[j]].status /= "active"
              /\ entries[pool[j]].created_at < entries[pool[i]].created_at

\* C6: after every add_key the pair's pool holds at most max_pool_size entries
C6_CapacityBounded ==
    ret.op = "add_key" => Len(pools[ret.pair]) <= max_pool_size

\* C7: an add_key removes no Active entry from the pool (and keeps the entry
\* it adds), and every entry it removes was created before every non-active
\* entry it retains
C7_PruneOldestNonActive ==
    [][(ret'.op = "add_key" /\ key_seq' = key_seq + 1) =>
          LET p       == ret'.pair
              removed == SeqToSet(pools[p]) \ SeqToSet(pools'[p])
              kept    == {k \in SeqToSet(pools'[p]) : entries'[k].status /= "active"}
          IN  /\ ret'.key \in SeqToSet(pools'[p])
              /\ \A k \in removed : entries[k].status \in {"used", "compromised"}
              /\ \A k \in removed : \A j \in kept :
                    entries[k].created_at < entries'[j].created_at]_vars

\* C7's case: the add_key just done pruned the pool, which keeps PruneKeep
\* non-active entries while the id index still holds an evicted one
C7_Witness ==
    /\ ret.op = "add_key"
    /\ Len(NonActiveOf(pools[ret.pair], entries)) = PruneKeep
    /\ \E k \in KeySet :
          /\ entries[k].user_pair = ret.pair
          /\ k \notin SeqToSet(pools[ret.pair])
          /\ \E j \in SeqToSet(pools[ret.pair]) :
                entries[j].status = "active" /\ entries[j].created_at < ret.key

(***************************************************************************)
(* The routing controllers: SDNController (controller/sdn_controller.py)  *)
(* and NetworkManager (secure_platform/backend/network_manager.py).       *)
(* Error rates are integers per mille, latencies integers in ms, and a     *)
(* path's cost is in per mille: error_rate + latency/100 is                *)
(* qber + 10 * latency_ms.  The intercept logs NetworkManager keeps for    *)
(* Eve's console are outside the routing state.                            *)
(***************************************************************************)
\* QBER_WARNING_THRESHOLD = 0.11
QBER_WARNING_THRESHOLD == 110
\* QBER_CRITICAL_THRESHOLD = 0.20
QBER_CRITICAL_THRESHOLD == 200
\* the error rate 1.0 update_link_qber clamps to
RateOne == 1000
\* INF = float('inf'): larger than the cost of any path of the model
INF == 1000000

Max(a, b) == IF a >= b THEN a ELSE b

\* the order of Python's string comparison on the node ids
NodeRank(n) ==
    CASE n = "A" -> 1 [] n = "B" -> 2 [] n = "R1" -> 3 [] n = "R2" -> 4
      [] n = "R3" -> 5 [] n = "R4" -> 6 [] OTHER -> 7

\* the nodes of _build_default_topology
DefaultNodes == {"A", "R1", "R2", "R3", "R4", "B"}
\* the edges of _build_default_topology
DefaultEdges ==
    << <<"A", "R1">>, <<"A", "R2">>, <<"R1", "R3">>, <<"R1", "R4">>,
       <<"R2", "R3">>, <<"R2", "R4">>, <<"R3", "B">>, <<"R4", "B">> >>

\* QuantumNode / _Node: only the compromised flag ever changes
NewNode == [active |-> TRUE, compromised |-> FALSE]

\* QuantumLink / _Link with the defaults of the dataclass
NewLink(src, dst, latency_ms) ==
    [src |-> src, dst |-> dst, qber |-> 0, compromised |-> FALSE,
     active |-> TRUE, latency_ms |-> latency_ms, photon_count |-> 0,
     error_count |-> 0, attack_type |-> "none"]

LinkId(lk) == <<lk.src, lk.dst>>

\* the position of the link with this id in the links, 0 when there is none
LinkPos(ls, link_id) ==
    IF \E i \in 1..Len(ls) : LinkId(ls[i]) = link_id
    THEN CHOOSE i \in 1..Len(ls) : LinkId(ls[i]) = link_id
    ELSE 0

\* the links of _build_default_topology: each edge followed by its reverse,
\* both with the latency drawn for the edge
DefaultLinks(lat) ==
    [i \in 1..(2 * Len(DefaultEdges)) |->
        LET e == DefaultEdges[(i + 1) \div 2]
        IN  IF i % 2 = 1 THEN NewLink(e[1], e[2], lat[(i + 1) \div 2])
                         ELSE NewLink(e[2], e[1], lat[(i + 1) \div 2])]

(***************************************************************************)
(* _recompute_route: Dijkstra with a heap of (distance, node) tuples       *)
(***************************************************************************)
\* the cost of a link; NetworkManager ignores the error rate and the
\* compromised flag when smart routing is off.  Two variants: one that
\* leaves the latency out, one that is the latency alone in every mode
LinkCostOfRate(lk, im, smart) ==
    IF lk.compromised THEN INF ELSE lk.qber

LinkCostOfLatency(lk, im, smart) == 10 * lk.latency_ms

LinkCost(lk, im, smart) ==
    IF im = "nm" /\ ~smart THEN 10 * lk.latency_ms
    ELSE IF lk.compromised THEN INF ELSE lk.qber + 10 * lk.latency_ms

\* Python's order on the tuples (distance, node id)
TupleLess(a, b) ==
    a[1] < b[1] \/ (a[1] = b[1] /\ NodeRank(a[2]) < NodeRank(b[2]))

\* the tuple heapq.heappop returns
HeapMin(heap) == CHOOSE m \in heap : \A o \in heap : o = m \/ TupleLess(m, o)

\* the links the loop body does not skip: if lk.src != u or not lk.active:
\* continue
Leaving(ls, u) == SelectSeq(ls, LAMBDA lk : lk.src = u /\ lk.active)

\* for lk in self._links.values(): relax the links that leave u, in order
RECURSIVE Relax(_, _, _, _, _)
Relax(out, d, st, im, smart) ==
    IF out = <<>> THEN st
    ELSE LET lk == Head(out)
             cost == LinkCost(lk, im, smart)
             nd == IF cost >= INF THEN INF ELSE d + cost
         IN  IF nd < st.dist[lk.dst]
             THEN Relax(Tail(out), d,
                        [dist |-> [st.dist EXCEPT ![lk.dst] = nd],
                         prev |-> [st.prev EXCEPT ![lk.dst] = lk.src],
                         heap |-> st.heap \cup {<<nd, lk.dst>>}],
                        im, smart)
             ELSE Relax(Tail(out), d, st, im, smart)

\* one iteration of the loop, for the popped tuple m = (d, u): skip it when
\* it is stale, else relax
Popped(ls, st, m, im, smart) ==
    IF m[1] > st.dist[m[2]] THEN [st EXCEPT !.heap = @ \ {m}]
    ELSE Relax(Leaving(ls, m[2]), m[1], [st EXCEPT !.heap = @ \ {m}], im, smart)

\* while heap: d, u = heapq.heappop(heap); ...
RECURSIVE DijkstraLoop(_, _, _, _)
DijkstraLoop(ls, st, im, smart) ==
    IF st.heap = {} THEN st
    ELSE DijkstraLoop(ls, Popped(ls, st, HeapMin(st.heap), im, smart), im, smart)

\* "None" is prev's None
RECURSIVE WalkBack(_, _, _)
WalkBack(prev, cur, path) ==
    IF cur = "None" THEN path ELSE WalkBack(prev, prev[cur], <<cur>> \o path)

\* if path and path[0] == src: return path; else return []
PathFrom(src, path) ==
    IF path /= <<>> /\ path[1] = src THEN path ELSE <<>>

\* the path _recompute_route returns: <<>> when dst is not reached
RecomputedPath(nds, ls, src, dst, im, smart) ==
    LET init == [dist |-> [n \in DOMAIN nds |-> IF n = src THEN 0 ELSE INF],
                 prev |-> [n \in DOMAIN nds |-> "None"],
                 heap |-> {<<0, src>>}]
    IN  PathFrom(src, WalkBack(DijkstraLoop(ls, init, im, smart).prev, dst, <<>>))

\* the controller's state as _recompute_route leaves it: SDNController
\* stores every result, NetworkManager only a path that was found
StoreRoute(st, src, dst, im, path) ==
    IF path /= <<>> \/ im = "sdn"
    THEN [st EXCEPT !.routes[<<src, dst>>] = path]
    ELSE st

RecomputeRoute(st, src, dst, im, smart) ==
    StoreRoute(st, src, dst, im,
               RecomputedPath(st.nodes, st.links, src, dst, im, smart))

(***************************************************************************)
(* The operations, as functions of the controller's state                  *)
(* st = [nodes, links, routes, alerts, eve]                                *)
(***************************************************************************)
NetState ==
    [nodes |-> nodes, links |-> links, routes |-> active_routes,
     alerts |-> alerts, eve |-> eve]

\* min(1.0, max(0.0, new_qber))
Clamp(new_qber) == Min(RateOne, Max(0, new_qber))

\* the compromised flag update_link_qber leaves for the clamped rate q; the
\* variant forgets the flag the link had
CompromisedAtCritical(q, was) == q >= QBER_CRITICAL_THRESHOLD

CompromisedAfter(q, was) ==
    IF q >= QBER_CRITICAL_THRESHOLD THEN TRUE
    ELSE IF q < QBER_WARNING_THRESHOLD THEN FALSE
    ELSE was

\* new_qber >= WARNING and previous_qber < WARNING, with a variant that
\* forgets the previous rate
AlertDueEveryTime(new_qber, previous_qber) ==
    new_qber >= QBER_WARNING_THRESHOLD

AlertDue(new_qber, previous_qber) ==
    new_qber >= QBER_WARNING_THRESHOLD /\ previous_qber < QBER_WARNING_THRESHOLD

\* RouteAlert.action_taken
ActionTaken(im, new_path) ==
    IF new_path /= <<>> THEN [text |-> "Rerouted via", path |-> new_path]
    ELSE IF im = "sdn" THEN [text |-> "No alternate path", path |-> <<>>]
    ELSE [text |-> "No reroute (smart routing disabled)", path |-> <<>>]

\* the alert branch of update_link_qber: st1 is the state with the link
\* written, new_path the path the recomputation returned
AlertRaised(st1, im, lk_dst, alert, new_path) ==
    LET st2 == StoreRoute(st1, "A", "B", im, new_path)
        st3 == [st2 EXCEPT !.alerts =
                  Append(@, [alert EXCEPT !.action_taken = ActionTaken(im, new_path)])]
    IN  IF st1.links[LinkPos(st1.links, alert.link_id)].compromised
           /\ lk_dst \in DOMAIN st1.nodes
        THEN [st3 EXCEPT !.nodes[lk_dst].compromised = TRUE]
        ELSE st3

\* update_link_qber on the link at position i
UpdateKnownLink(st, im, smart, i, new_qber, attack_type) ==
    LET lk == st.links[i]
        q == Clamp(new_qber)
        st1 == [st EXCEPT !.links[i] =
                  [lk EXCEPT !.qber = q, !.attack_type = attack_type,
                             !.compromised = CompromisedAfter(q, lk.compromised)]]
        alert == [link_id |-> LinkId(lk), qber |-> new_qber,
                  previous_qber |-> lk.qber,
                  threshold |-> IF new_qber >= QBER_CRITICAL_THRESHOLD
                                THEN "critical" ELSE "warning",
                  action_taken |-> "",
                  attack_type |-> attack_type]
    IN  IF ~AlertDue(new_qber, lk.qber) THEN st1
        ELSE AlertRaised(st1, im, lk.dst, alert,
                         IF im = "sdn" \/ smart
                         THEN RecomputedPath(st1.nodes, st1.links, "A", "B",
                                             im, smart)
                         ELSE <<>>)

\* update_link_qber of either controller
UpdateLinkQber(st, im, smart, link_id, new_qber, attack_type) ==
    IF LinkPos(st.links, link_id) = 0 THEN st
    ELSE UpdateKnownLink(st, im, smart, LinkPos(st.links, link_id), new_qber,
                         attack_type)

\* QuantumLink.update_qber on the link get_link returns; the quotient is
\* rounded down to per mille, which keeps every comparison with a threshold
LinkUpdateQber(st, link_id, new_errors, new_photons) ==
    LET i == LinkPos(st.links, link_id)
    IN  IF i = 0 THEN st
        ELSE LET lk == st.links[i]
                 e == lk.error_count + new_errors
                 n == lk.photon_count + new_photons
             IN  [st EXCEPT !.links[i] =
                    [lk EXCEPT !.error_count = e, !.photon_count = n,
                               !.qber = IF n > 0 THEN (RateOne * e) \div n ELSE @]]

\* SDNController.clear_link_attack; r is the rate random.uniform draws
ClearLinkAttack(st, link_id, r) ==
    LET i == LinkPos(st.links, link_id)
    IN  IF i = 0 THEN st
        ELSE [st EXCEPT !.links[i] =
                [@ EXCEPT !.compromised = FALSE, !.attack_type = "none",
                          !.qber = r]]

\* for lid in link_ids: self.simulate_attack_on_link(lid, attack_type),
\* every link with the injected rate r
RECURSIVE AttackEach(_, _, _, _, _, _)
AttackEach(st, im, smart, link_ids, attack_type, r) ==
    IF link_ids = <<>> THEN st
    ELSE AttackEach(UpdateLinkQber(st, im, smart, Head(link_ids), r, attack_type),
                    im, smart, Tail(link_ids), attack_type, r)

\* SDNController.poison_links
PoisonLinks(st, link_ids, attack_type, r) ==
    RecomputeRoute(AttackEach(st, "sdn", TRUE, link_ids, attack_type, r),
                   "A", "B", "sdn", TRUE)

\* random_poison's candidates: the ids of the links with src < dst
Candidates(ls) ==
    {LinkId(ls[i]) : i \in {j \in 1..Len(ls) : NodeRank(ls[j].src) < NodeRank(ls[j].dst)}}

\* rev = "→".join(reversed(lid.split("→"))); if rev in self._links: ...
PoisonReverse(st1, lid, attack_type) ==
    LET j == LinkPos(st1.links, <<lid[2], lid[1]>>)
    IN  IF j = 0 THEN st1
        ELSE [st1 EXCEPT !.links[j] =
                [@ EXCEPT !.compromised = TRUE, !.attack_type = attack_type,
                          !.qber = st1.links[LinkPos(st1.links, lid)].qber]]

\* the body of random_poison's loop for one chosen link
PoisonBothWays(st, lid, attack_type, r) ==
    PoisonReverse(UpdateLinkQber(st, "sdn", TRUE, lid, r, attack_type), lid,
                  attack_type)

RECURSIVE PoisonChosen(_, _, _, _)
PoisonChosen(st, chosen, attack_type, r) ==
    IF chosen = <<>> THEN st
    ELSE PoisonChosen(PoisonBothWays(st, Head(chosen), attack_type, r),
                      Tail(chosen), attack_type, r)

\* SDNController.random_poison, for the sample random.sample drew
RandomPoison(st, chosen, attack_type, r) ==
    RecomputeRoute(PoisonChosen(st, chosen, attack_type, r),
                   "A", "B", "sdn", TRUE)

\* clear_all_attacks of either controller; r is the rate drawn for a link
\* that is reset
ClearAllAttacks(st, im, smart, r) ==
    LET ls == [i \in 1..Len(st.links) |->
                 IF im = "nm" \/ st.links[i].compromised
                               \/ st.links[i].attack_type /= "none"
                 THEN [st.links[i] EXCEPT !.compromised = FALSE,
                                          !.attack_type = "none", !.qber = r]
                 ELSE st.links[i]]
        nds == [n \in DOMAIN st.nodes |-> [st.nodes[n] EXCEPT !.compromised = FALSE]]
        st1 == [st EXCEPT !.links = ls, !.nodes = nds,
                          !.eve = IF im = "nm" THEN NoEve ELSE @]
    IN  RecomputeRoute(st1, "A", "B", im, smart)

\* SDNController.add_link: a dict assignment keeps an existing id's position
AddLink(st, link) ==
    LET i == LinkPos(st.links, LinkId(link))
    IN  IF i = 0 THEN [st EXCEPT !.links = Append(@, link)]
        ELSE [st EXCEPT !.links[i] = link]

\* NetworkManager.simulate_attack for a non-empty list, every link with the
\* injected rate r
SimulateAttack(st, smart, link_ids, attack_type, r) ==
    LET st1 == AttackEach(st, "nm", smart, link_ids, attack_type, r)
        known == {i \in 1..Len(link_ids) : LinkPos(st.links, link_ids[i]) /= 0}
        max_qber == IF known = {} THEN 0 ELSE Max(0, r)
    IN  [st1 EXCEPT !.eve =
            [active |-> TRUE, attack_type |-> attack_type,
             target_links |-> link_ids,
             intercepted_count |-> st.eve.intercepted_count + 1,
             qber_impact |-> max_qber]]

\* NetworkManager.clear_attack; r is the rate random.uniform draws
ClearAttack(st, smart, link_id, r) ==
    LET i == LinkPos(st.links, link_id)
        st1 == IF i = 0 THEN st
               ELSE LET dst == st.links[i].dst
                        st0 == [st EXCEPT !.links[i] =
                                  [@ EXCEPT !.compromised = FALSE,
                                            !.attack_type = "none", !.qber = r]]
                        st00 == IF dst \in DOMAIN st.nodes
                                THEN [st0 EXCEPT !.nodes[dst].compromised = FALSE]
                                ELSE st0
                    IN  RecomputeRoute(st00, "A", "B", "nm", smart)
        remaining == Filter(st.eve.target_links,
                            SeqToSet(st.eve.target_links) \ {link_id})
    IN  [st1 EXCEPT !.eve =
            IF remaining /= <<>>
            THEN [active |-> TRUE, attack_type |-> st.eve.attack_type,
                  target_links |-> remaining,
                  intercepted_count |-> st.eve.intercepted_count,
                  qber_impact |-> st.eve.qber_impact]
            ELSE NoEve]

\* NetworkManager.push_session_qber, for the hop i random.randint drew
PushSessionQber(st, smart, qber, i) ==
    LET route == st.routes[<<"A", "B">>]
    IN  UpdateLinkQber(st, "nm", smart, <<route[i], route[i + 1]>>, qber, "none")

\* the state __init__ and reset build: the default topology with the
\* latencies lat and the route A -> B computed
RoutePairs == DefaultNodes \X DefaultNodes

BuildDefaultTopology(lat, im) ==
    RecomputeRoute([nodes |-> [n \in DefaultNodes |-> NewNode],
                    links |-> DefaultLinks(lat),
                    routes |-> [rp \in RoutePairs |-> <<>>],
                    alerts |-> <<>>,
                    eve |-> NoEve],
                   "A", "B", im, TRUE)

(***************************************************************************)
(* SpecNet: one routing controller, SDNController or NetworkManager, and   *)
(* the calls its users make                                                *)
(***************************************************************************)
Impls == {"sdn", "nm"}
\* latencies random.uniform(2, 10) draws for the eight edges: all equal, and
\* a cheap upper path
LatencyProfiles ==
    { <<5, 5, 5, 5, 5, 5, 5, 5>>, <<2, 10, 2, 10, 10, 10, 2, 10>> }
\* link ids the callers pass: two links that cut A off together, and an id
\* of no link
NetLinkInputs == { <<"A", "R1">>, <<"A", "R2">>, <<"X", "Y">> }
\* rates the callers pass: below 0, the warning threshold, the critical
\* threshold, above 1
UpdateRates == {-100, 110, 200, 1500}
\* (new_qber, attack_type) the callers pass to update_link_qber
UpdateInputs ==
    { <<-100, "none">>, <<110, "none">>, <<200, "intercept_resend">>,
      <<1500, "intercept_resend">> }
AttackTypeInputs == {"intercept_resend", "pns", "noise_injection"}
\* a rate drawn from the range of the injected rate of an attack: the
\* middle of the range of a known attack, that is a critical rate for
\* intercept_resend, a safe rate for pns and trojan_horse and a rate in the
\* warning band for NetworkManager's noise_injection, and the least rate
\* random.uniform(0.12, 0.30) draws for an attack the controller does not know
InjectedRates(im, attack_type) ==
    CASE attack_type = "intercept_resend" -> {250}
      [] attack_type = "pns" -> {30}
      [] attack_type = "trojan_horse" -> {20}
      [] attack_type = "noise_injection" /\ im = "nm" -> {180}
      [] OTHER -> {120}
\* the largest rate random.uniform(0.005, 0.04) draws for a cleared link
ClearedRates == {40}
\* lists of link ids the callers pass to a bulk operation
LinkListInputs ==
    { <<>>, << <<"A", "R1">>, <<"A", "R2">> >>,
      << <<"A", "R1">>, <<"A", "R1">> >>, << <<"X", "Y">> >> }
\* the samples random_poison may draw for n: sequences of min(n, #candidates)
\* distinct candidates, here among the links that leave A
PoisonSamples(ls, n) ==
    LET c == Candidates(ls) \cap NetLinkInputs
    IN  IF n <= 0 THEN {<<>>}
        ELSE IF n = 1 THEN {<<a>> : a \in c}
        ELSE {<<a, b>> : a \in c, b \in c} \ {<<a, a>> : a \in c}
PoisonCounts == {1, 2}
\* links the callers pass to add_link: a direct link, and a link that
\* replaces A -> R1 and was constructed with a critical error rate
AddLinkInputs ==
    { NewLink("A", "B", 5), [NewLink("A", "R1", 5) EXCEPT !.qber = 500] }
\* (new_errors, new_photons) the callers pass to QuantumLink.update_qber
CountInputs == { <<1, 1>>, <<1, 9>> }
RerouteInputs == { <<"A", "B">>, <<"B", "A">> }

InitNet ==
    /\ max_pool_size = DefaultPoolSize
    /\ EmptyPool
    /\ RaceIdle
    /\ KMFresh
    /\ impl \in Impls
    /\ \E lat \in LatencyProfiles :
          LET st == BuildDefaultTopology(lat, impl)
          IN  /\ nodes = st.nodes
              /\ links = st.links
              /\ active_routes = st.routes
              /\ alerts = st.alerts
              /\ eve = st.eve
    /\ smart_routing = TRUE
    /\ net_ops = 0
    /\ net_ret = NoNetRet

\* an operation returned, leaving the controller in the state st
NetReturn(returned, r) ==
    /\ net_ops < MaxNetOps
    /\ \E st \in {returned} :
          /\ nodes' = st.nodes
          /\ links' = st.links
          /\ active_routes' = st.routes
          /\ alerts' = st.alerts
          /\ eve' = st.eve
    /\ net_ops' = net_ops + 1
    /\ net_ret' = r
    /\ UNCHANGED <<impl, poolVars, raceVars, kmVars>>

\* what net_ret records of a call: the operation, the link ids and the rate
\* it was given or drew (the rate is 0 for an operation without one)
NetRet(op, link_ids, rate, attack_type) ==
    [op |-> op, link_ids |-> link_ids, rate |-> rate, attack_type |-> attack_type]

\* update_link_qber(link_id, new_qber, attack_type), of either controller
NetUpdateLinkQber ==
    /\ \E link_id \in NetLinkInputs, inp \in UpdateInputs :
          NetReturn(UpdateLinkQber(NetState, impl, smart_routing, link_id,
                                   inp[1], inp[2]),
                    NetRet("update_link_qber", <<link_id>>, inp[1], inp[2]))
    /\ UNCHANGED smart_routing

\* SDNController.simulate_attack_on_link(link_id, attack_type)
SDNSimulateAttackOnLink ==
    /\ impl = "sdn"
    /\ \E link_id \in NetLinkInputs, attack_type \in AttackTypeInputs :
       \E injected_qber \in InjectedRates("sdn", attack_type) :
          NetReturn(UpdateLinkQber(NetState, "sdn", TRUE, link_id,
                                   injected_qber, attack_type),
                    NetRet("simulate_attack_on_link", <<link_id>>,
                           injected_qber, attack_type))
    /\ UNCHANGED smart_routing

\* SDNController.clear_link_attack(link_id)
SDNClearLinkAttack ==
    /\ impl = "sdn"
    /\ \E link_id \in NetLinkInputs, r \in ClearedRates :
          NetReturn(ClearLinkAttack(NetState, link_id, r),
                    NetRet("clear_link_attack", <<link_id>>, r, "none"))
    /\ UNCHANGED smart_routing

\* SDNController.poison_links(link_ids, attack_type)
SDNPoisonLinks ==
    /\ impl = "sdn"
    /\ \E link_ids \in LinkListInputs, attack_type \in AttackTypeInputs :
       \E r \in InjectedRates("sdn", attack_type) :
          NetReturn(PoisonLinks(NetState, link_ids, attack_type, r),
                    NetRet("poison_links", link_ids, r, attack_type))
    /\ UNCHANGED smart_routing

\* SDNController.random_poison(n, attack_type)
SDNRandomPoison ==
    /\ impl = "sdn"
    /\ \E n \in PoisonCounts, attack_type \in AttackTypeInputs :
       \E chosen \in PoisonSamples(links, n),
          r \in InjectedRates("sdn", attack_type) :
          NetReturn(RandomPoison(NetState, chosen, attack_type, r),
                    NetRet("random_poison", chosen, r, attack_type))
    /\ UNCHANGED smart_routing

\* clear_all_attacks(), of either controller
NetClearAllAttacks ==
    /\ \E r \in ClearedRates :
          NetReturn(ClearAllAttacks(NetState, impl, smart_routing, r),
                    NetRet("clear_all_attacks", <<>>, r, "none"))
    /\ UNCHANGED smart_routing

\* SDNController.add_link(link)
SDNAddLink ==
    /\ impl = "sdn"
    /\ \E link \in AddLinkInputs :
          NetReturn(AddLink(NetState, link),
                    NetRet("add_link", <<LinkId(link)>>, link.qber, "none"))
    /\ UNCHANGED smart_routing

\* SDNController.get_link(link_id).update_qber(new_errors, new_photons)
SDNLinkUpdateQber ==
    /\ impl = "sdn"
    /\ \E link_id \in NetLinkInputs, c \in CountInputs :
          NetReturn(LinkUpdateQber(NetState, link_id, c[1], c[2]),
                    NetRet("update_qber", <<link_id>>, 0, "none"))
    /\ UNCHANGED smart_routing

\* SDNController.force_reroute(src, dst)
SDNForceReroute ==
    /\ impl = "sdn"
    /\ \E rp \in RerouteInputs :
          NetReturn(RecomputeRoute(NetState, rp[1], rp[2], "sdn", TRUE),
                    NetRet("force_reroute", <<rp>>, 0, "none"))
    /\ UNCHANGED smart_routing

\* SDNController.clear_alerts()
SDNClearAlerts ==
    /\ impl = "sdn"
    /\ NetReturn([NetState EXCEPT !.alerts = <<>>],
                 NetRet("clear_alerts", <<>>, 0, "none"))
    /\ UNCHANGED smart_routing

\* SDNController.reset()
SDNReset ==
    /\ impl = "sdn"
    /\ \E lat \in LatencyProfiles :
          NetReturn(BuildDefaultTopology(lat, "sdn"),
                    NetRet("reset", <<>>, 0, "none"))
    /\ UNCHANGED smart_routing

\* NetworkManager.simulate_attack(link_ids, attack_type); an empty list
\* raises ValueError before anything is written
NMSimulateAttack ==
    /\ impl = "nm"
    /\ \E link_ids \in LinkListInputs, attack_type \in AttackTypeInputs :
       \E r \in InjectedRates("nm", attack_type) :
          IF link_ids = <<>>
          THEN NetReturn(NetState, NetRet("ValueError", link_ids, 0, attack_type))
          ELSE NetReturn(SimulateAttack(NetState, smart_routing, link_ids,
                                        attack_type, r),
                         NetRet("simulate_attack", link_ids, r, attack_type))
    /\ UNCHANGED smart_routing

\* NetworkManager.clear_attack(link_id)
NMClearAttack ==
    /\ impl = "nm"
    /\ \E link_id \in NetLinkInputs, r \in ClearedRates :
          NetReturn(ClearAttack(NetState, smart_routing, link_id, r),
                    NetRet("clear_attack", <<link_id>>, r, "none"))
    /\ UNCHANGED smart_routing

\* NetworkManager.push_session_qber(qber): a no-op when the active route
\* has fewer than two nodes
NMPushSessionQber ==
    /\ impl = "nm"
    /\ \E qber \in UpdateRates :
          LET route == active_routes[<<"A", "B">>]
          IN  IF Len(route) >= 2
              THEN \E i \in 1..(Len(route) - 1) :
                      NetReturn(PushSessionQber(NetState, smart_routing, qber, i),
                                NetRet("push_session_qber",
                                       << <<route[i], route[i + 1]>> >>, qber, "none"))
              ELSE NetReturn(NetState, NetRet("push_session_qber", <<>>, qber, "none"))
    /\ UNCHANGED smart_routing

\* NetworkManager.smart_routing_enabled = val
NMSetSmartRouting ==
    /\ impl = "nm"
    /\ \E val \in BOOLEAN :
          /\ smart_routing' = val
          /\ NetReturn(IF val THEN RecomputeRoute(NetState, "A", "B", "nm", TRUE)
                       ELSE NetState,
                       NetRet("smart_routing_enabled", <<>>, 0, "none"))

NextNet ==
    \/ NetUpdateLinkQber
    \/ SDNSimulateAttackOnLink
    \/ SDNClearLinkAttack
    \/ SDNPoisonLinks
    \/ SDNRandomPoison
    \/ NetClearAllAttacks
    \/ SDNAddLink
    \/ SDNLinkUpdateQber
    \/ SDNForceReroute
    \/ SDNClearAlerts
    \/ SDNReset
    \/ NMSimulateAttack
    \/ NMClearAttack
    \/ NMPushSessionQber
    \/ NMSetSmartRouting

SpecNet == InitNet /\ [][NextNet]_vars

(***************************************************************************)
(* Claims about the routing controllers                                    *)
(***************************************************************************)
\* C9: in every reachable state of a routing controller, every link whose
\* error rate is at or above the critical threshold has its compromised flag
\* set
C9_CriticalIsCompromised ==
    \A i \in 1..Len(links) :
        links[i].qber >= QBER_CRITICAL_THRESHOLD => links[i].compromised

\* the operations that call update_link_qber, and update_link_qber itself
UpdatingOps ==
    {"update_link_qber", "simulate_attack_on_link", "poison_links",
     "random_poison", "simulate_attack", "push_session_qber"}

\* the links the step's operation was given whose rate was below the warning
\* threshold before the step and whose new rate is at or above it
CrossingLinks ==
    {l \in SeqToSet(net_ret'.link_ids) :
        /\ LinkPos(links, l) /= 0
        /\ links[LinkPos(links, l)].qber < QBER_WARNING_THRESHOLD
        /\ net_ret'.rate >= QBER_WARNING_THRESHOLD}

\* the step left the alerts that were in the log where they were
AlertsKept ==
    /\ Len(alerts') >= Len(alerts)
    /\ SubSeq(alerts', 1, Len(alerts)) = alerts

\* C10: update_link_qber on a known link appends exactly one alert, about
\* that link, when the link's rate before the call was below the warning
\* threshold and the new rate is at or above it, and appends no alert in every
\* other case; any other operation appends one alert for each link it
\* updates across the threshold in this way and no other alert
C10_AlertOnlyOnUpwardCrossing ==
    [][net_ops' = net_ops + 1 =>
         /\ net_ret'.op = "update_link_qber" =>
               IF CrossingLinks /= {}
               THEN /\ alerts' = Append(alerts, alerts'[Len(alerts')])
                    /\ alerts'[Len(alerts')].link_id = net_ret'.link_ids[1]
               ELSE alerts' = alerts
         /\ net_ret'.op \in UpdatingOps =>
               /\ AlertsKept
               /\ Len(alerts') = Len(alerts) + Cardinality(CrossingLinks)
               /\ \A l \in CrossingLinks :
                     \E n \in (Len(alerts) + 1)..Len(alerts') :
                         alerts'[n].link_id = l
         /\ net_ret'.op \notin UpdatingOps => alerts' \in {alerts, <<>>}
      ]_vars

\* C10's case: the first operation of a controller was an update_link_qber
\* across the warning threshold, and the log holds the one alert it appended
C10_Witness ==
    /\ net_ops = 1
    /\ net_ret.op = "update_link_qber"
    /\ Len(alerts) = 1
    /\ alerts[1].link_id = net_ret.link_ids[1]
    /\ alerts[1].previous_qber < QBER_WARNING_THRESHOLD
    /\ alerts[1].qber >= QBER_WARNING_THRESHOLD

\* C11: every step of a routing controller other than reset leaves each alert
\* that is in the log at its position with all its fields unchanged, so that
\* the log changes only by alerts being appended at its end
C11_AlertLogAppendOnly ==
    [][net_ops' = net_ops + 1 /\ net_ret'.op /= "reset" => AlertsKept]_vars

\* C12: when update_link_qber has appended an alert, the stored A -> B route
\* the caller finds with the alert in the log is the route a recomputation
\* over the updated links returns
C12_RouteCurrentWhenAlertVisible ==
    [][/\ net_ops' = net_ops + 1
       /\ net_ret'.op = "update_link_qber"
       /\ Len(alerts') = Len(alerts) + 1
       => active_routes'[<<"A", "B">>] =
              RecomputedPath(nodes', links', "A", "B", impl, smart_routing)
      ]_vars

(***************************************************************************)
(* SpecRoute: _recompute_route applied to the graphs a controller can be   *)
(* left with.  The graph is the default topology whose forward links have  *)
(* been given error rates, put under attack or, by add_link, replaced by   *)
(* links that are not active; the stored route is the one the constructor  *)
(* computed.                                                               *)
(***************************************************************************)
\* the ids of the links of the default edges, in the direction A to B
ForwardIds == SeqToSet(DefaultEdges)
\* per mille error rates of the forward links that are not under attack:
\* all zero, and rates that make the cheapest path depend on them
RateProfiles ==
    { <<0, 0, 0, 0, 0, 0, 0, 0>>, <<100, 0, 30, 150, 0, 60, 0, 40>> }
\* the sets of links add_link has replaced by a link that is not active
InactiveSets == { {}, {<<"A", "R1">>}, {<<"R3", "B">>} }
\* (src, dst) the recomputation is called with
RouteInputs ==
    { <<"A", "B">>, <<"B", "A">>, <<"A", "A">>, <<"R1", "B">> }

\* the links of the controller after these updates: a link under attack has
\* the rate injected for intercept_resend and is compromised
GraphLinks(lat, rates, attacked, inactive) ==
    [i \in 1..(2 * Len(DefaultEdges)) |->
        LET lk == DefaultLinks(lat)[i]
        IN  IF i % 2 = 0 THEN lk
            ELSE IF LinkId(lk) \in attacked
                 THEN [lk EXCEPT !.qber = 250, !.compromised = TRUE,
                                 !.attack_type = "intercept_resend",
                                 !.active = LinkId(lk) \notin inactive]
                 ELSE [lk EXCEPT !.qber = rates[(i + 1) \div 2],
                                 !.active = LinkId(lk) \notin inactive]]

InitRoute ==
    /\ max_pool_size = DefaultPoolSize
    /\ EmptyPool
    /\ RaceIdle
    /\ KMFresh
    /\ impl \in Impls
    /\ smart_routing \in (IF impl = "sdn" THEN {TRUE} ELSE BOOLEAN)
    /\ \E lat \in LatencyProfiles, rates \in RateProfiles,
          attacked \in SUBSET ForwardIds,
          inactive \in (IF impl = "sdn" THEN InactiveSets ELSE {{}}) :
          LET st == BuildDefaultTopology(lat, impl)
          IN  /\ nodes = st.nodes
              /\ links = GraphLinks(lat, rates, attacked, inactive)
              /\ active_routes = st.routes
              /\ alerts = st.alerts
              /\ eve = st.eve
    /\ net_ops = 0
    /\ net_ret = NoNetRet

\* _recompute_route(src, dst): net_ret records the path it returned
RouteRecompute ==
    /\ net_ops = 0
    /\ \E rp \in RouteInputs :
          /\ active_routes' =
                RecomputeRoute(NetState, rp[1], rp[2], impl, smart_routing).routes
          /\ net_ret' = [op |-> "recompute_route", src |-> rp[1], dst |-> rp[2],
                         path |-> RecomputedPath(nodes, links, rp[1], rp[2],
                                                 impl, smart_routing)]
    /\ net_ops' = 1
    /\ UNCHANGED <<impl, nodes, links, alerts, eve, smart_routing>>
    /\ UNCHANGED <<poolVars, raceVars, kmVars>>

NextRoute == RouteRecompute

SpecRoute == InitRoute /\ [][NextRoute]_vars

\* a link the claims let a route run over
SafeLink(lk) == lk.active /\ ~lk.compromised

\* the nodes that can be reached from the nodes seen over safe links
RECURSIVE SafeReach(_, _)
SafeReach(ls, seen) ==
    LET more == seen \cup {ls[i].dst : i \in {j \in 1..Len(ls) :
                                SafeLink(ls[j]) /\ ls[j].src \in seen}}
    IN  IF more = seen THEN seen ELSE SafeReach(ls, more)

\* path starts at src, ends at dst and each of its steps is a safe link
IsSafePath(ls, path, src, dst) ==
    /\ path /= <<>>
    /\ path[1] = src
    /\ path[Len(path)] = dst
    /\ \A i \in 1..(Len(path) - 1) :
          \E k \in 1..Len(ls) :
              LinkId(ls[k]) = <<path[i], path[i + 1]>> /\ SafeLink(ls[k])

\* the recomputation returned a safe path if there is one, and the empty
\* path if there is none
SafePathOrNone ==
    IF net_ret.dst \in SafeReach(links, {net_ret.src})
    THEN IsSafePath(links, net_ret.path, net_ret.src, net_ret.dst)
    ELSE net_ret.path = <<>>

\* C13 as stated: whatever the controller and its routing mode, the
\* recomputation from src to dst returns a path from src to dst over active
\* links that are not compromised when there is one, and the empty path when
\* there is none
C13_SafePathAlways ==
    net_ret.op = "recompute_route" => SafePathOrNone

\* C13: the recomputation of SDNController, and of NetworkManager while smart
\* routing is enabled, returns a path from src to dst over active links that
\* are not compromised when there is one, and the empty path when there is
\* none
C13_SafePathWhenSmart ==
    net_ret.op = "recompute_route" /\ (impl = "sdn" \/ smart_routing)
        => SafePathOrNone

\* C13's case: NetworkManager with smart routing enabled recomputed A -> B
\* with a link out of A compromised, and returned a path
C13_Witness ==
    /\ net_ret.op = "recompute_route"
    /\ impl = "nm" /\ smart_routing
    /\ net_ret.src = "A" /\ net_ret.dst = "B"
    /\ links[LinkPos(links, <<"A", "R1">>)].compromised
    /\ net_ret.path /= <<>>

\* C14: after a route recomputation for (src, dst), get_active_route(src,
\* dst) returns the path the recomputation returned, the empty path included
C14_RouteMapHoldsLastPath ==
    net_ret.op = "recompute_route"
        => active_routes[<<net_ret.src, net_ret.dst>>] = net_ret.path

\* the cost the claims give a link that is not compromised:
\* error_rate + latency / 100, per mille
RouteCost(lk) == lk.qber + 10 * lk.latency_ms

\* the sum of the costs of the links path runs over
RECURSIVE PathCost(_, _)
PathCost(ls, path) ==
    IF Len(path) < 2 THEN 0
    ELSE RouteCost(ls[LinkPos(ls, <<path[1], path[2]>>)]) + PathCost(ls, Tail(path))

\* the least cost of a walk of at most k safe links from src to v, INF
\* when there is none
RECURSIVE BestCost(_, _, _, _)
BestCost(ls, src, v, k) ==
    LET here == IF v = src THEN 0 ELSE INF
    IN  IF k = 0 THEN here
        ELSE LET into == {i \in 1..Len(ls) : SafeLink(ls[i]) /\ ls[i].dst = v}
                 Via(i) == LET c == BestCost(ls, src, ls[i].src, k - 1)
                           IN  IF c >= INF THEN INF ELSE c + RouteCost(ls[i])
                 costs == {Via(i) : i \in into} \cup {here}
             IN  CHOOSE m \in costs : \A o \in costs : m <= o

\* the four routes of the default topology from A to B
DefaultRoutes ==
    { <<"A", r, q, "B">> : r \in {"R1", "R2"}, q \in {"R3", "R4"} }

\* C15: a path SDNController's recomputation returns runs over active links
\* that are not compromised, and the sum of error_rate + latency/100 over its
\* links is the least such sum of any path from src to dst over active links
\* that are not compromised
C15_MinimumCostPath ==
    net_ret.op = "recompute_route" /\ impl = "sdn" /\ net_ret.path /= <<>>
        => /\ IsSafePath(links, net_ret.path, net_ret.src, net_ret.dst)
           /\ PathCost(links, net_ret.path) =
                  BestCost(links, net_ret.src, net_ret.dst,
                           Cardinality(DOMAIN nodes) - 1)

\* C15's case: SDNController recomputed A -> B and returned a path while
\* another path over safe links costs more
C15_Witness ==
    /\ net_ret.op = "recompute_route" /\ impl = "sdn"
    /\ net_ret.src = "A" /\ net_ret.dst = "B"
    /\ net_ret.path /= <<>>
    /\ \E other \in DefaultRoutes :
          /\ IsSafePath(links, other, "A", "B")
          /\ PathCost(links, other) > PathCost(links, net_ret.path)

(***************************************************************************)
(* get_all_simple_paths and can_route_safely of SDNController              *)
(***************************************************************************)
\* max_depth: int = 10
MaxDepth == 10

\* SDNController.add_node of a node with the defaults of the dataclass
AddNode(st, node_id) ==
    [st EXCEPT !.nodes = [n \in DOMAIN st.nodes \cup {node_id} |->
                            IF n = node_id THEN NewNode ELSE st.nodes[n]]]

\* dfs(cur, path, visited): the paths it appends to result, in order; visited
\* holds the nodes of path.  DfsEach is the loop over the links from the
\* i-th on
RECURSIVE Dfs(_, _, _, _, _)
RECURSIVE DfsEach(_, _, _, _, _, _)
Dfs(ls, dst, max_depth, cur, path) ==
    IF cur = dst THEN <<path>>
    ELSE IF Len(path) >= max_depth THEN <<>>
    ELSE DfsEach(ls, dst, max_depth, cur, path, 1)

DfsEach(ls, dst, max_depth, cur, path, i) ==
    IF i > Len(ls) THEN <<>>
    ELSE (IF ls[i].src = cur /\ ls[i].dst \notin SeqToSet(path)
          THEN Dfs(ls, dst, max_depth, ls[i].dst, Append(path, ls[i].dst))
          ELSE <<>>)
         \o DfsEach(ls, dst, max_depth, cur, path, i + 1)

GetAllSimplePaths(ls, src, dst, max_depth) ==
    Dfs(ls, dst, max_depth, src, <<src>>)

\* can_route_safely: some enumerated path has no compromised link; the
\* variant is satisfied with any enumerated path
CanRouteOverAny(ls, src, dst) ==
    GetAllSimplePaths(ls, src, dst, MaxDepth) /= <<>>

CanRouteSafely(ls, src, dst) ==
    LET paths == GetAllSimplePaths(ls, src, dst, MaxDepth)
    IN  \E k \in 1..Len(paths) :
            \A i \in 1..(Len(paths[k]) - 1) :
                ~ls[LinkPos(ls, <<paths[k][i], paths[k][i + 1]>>)].compromised

(***************************************************************************)
(* SpecPaths: can_route_safely on topologies built with add_node and       *)
(* add_link: the default topology, its forward links under attack or not   *)
(* active, and possibly a chain of added nodes from A to B                 *)
(***************************************************************************)
ChainNodes == <<"X1", "X2", "X3", "X4", "X5", "X6", "X7", "X8", "X9">>
\* the hops of a chain over the first n added nodes
ChainHops(n) == <<"A">> \o SubSeq(ChainNodes, 1, n) \o <<"B">>
\* no chain, a chain that makes a path of 10 nodes, and one of 11 nodes
ChainInputs == { <<>>, ChainHops(MaxDepth - 2), ChainHops(MaxDepth - 1) }
\* the links of the chain that are constructed compromised
ChainFlagInputs == { {}, {<<"X1", "X2">>} }

\* the latencies and the error rates of the links: neither matters to the
\* enumeration
EvenLatencies == <<5, 5, 5, 5, 5, 5, 5, 5>>
NoRates == <<0, 0, 0, 0, 0, 0, 0, 0>>

\* add_node and add_link for each hop of the chain, in order
RECURSIVE AddChain(_, _, _)
AddChain(st, hops, flagged) ==
    IF Len(hops) < 2 THEN st
    ELSE LET st1 == IF hops[2] \in DOMAIN st.nodes THEN st
                    ELSE AddNode(st, hops[2])
             link == [NewLink(hops[1], hops[2], 5) EXCEPT
                         !.compromised = (<<hops[1], hops[2]>> \in flagged)]
         IN  AddChain(AddLink(st1, link), Tail(hops), flagged)

InitPaths ==
    /\ max_pool_size = DefaultPoolSize
    /\ EmptyPool
    /\ RaceIdle
    /\ KMFresh
    /\ impl = "sdn"
    /\ smart_routing = TRUE
    /\ \E attacked \in SUBSET ForwardIds, inactive \in InactiveSets,
          hops \in ChainInputs, flagged \in ChainFlagInputs :
          LET st0 == BuildDefaultTopology(EvenLatencies, "sdn")
              st == AddChain([st0 EXCEPT !.links =
                                 GraphLinks(EvenLatencies, NoRates, attacked,
                                            inactive)],
                             hops, flagged)
          IN  /\ nodes = st.nodes
              /\ links = st.links
              /\ active_routes = st.routes
              /\ alerts = st.alerts
              /\ eve = st.eve
    /\ net_ops = 0
    /\ net_ret = NoNetRet

\* can_route_safely(src, dst): net_ret records what it returned
PathsCanRouteSafely ==
    /\ net_ops = 0
    /\ \E rp \in RouteInputs :
          net_ret' = [op |-> "can_route_safely", src |-> rp[1], dst |-> rp[2],
                      result |-> CanRouteSafely(links, rp[1], rp[2])]
    /\ net_ops' = 1
    /\ UNCHANGED <<impl, nodes, links, active_routes, alerts, eve, smart_routing>>
    /\ UNCHANGED <<poolVars, raceVars, kmVars>>

NextPaths == PathsCanRouteSafely

SpecPaths == InitPaths /\ [][NextPaths]_vars

\* the nodes a walk of at most k links, none of them compromised, reaches
\* from the nodes seen
RECURSIVE CleanReach(_, _, _)
CleanReach(ls, seen, k) ==
    LET more == seen \cup {ls[i].dst : i \in {j \in 1..Len(ls) :
                                ~ls[j].compromised /\ ls[j].src \in seen}}
    IN  IF k = 0 \/ more = seen THEN seen ELSE CleanReach(ls, more, k - 1)

TouchedLinks ==
    SeqToSet(net_ret'.link_ids)
        \cup (IF net_ret'.op = "random_poison"
              THEN {<<l[2], l[1]>> : l \in SeqToSet(net_ret'.link_ids)}
              ELSE {})

\* C17: poison_links and random_poison leave every link they touch with the
\* error rate, the attack label and the compromised flag that one
\* update_link_qber call with the injected rate and the label leaves it
\* with from the state before the operation
C17_BulkAsSingleUpdate ==
    [][net_ops' = net_ops + 1 /\ net_ret'.op \in {"poison_links", "random_poison"}
         => \A l \in TouchedLinks :
               LinkPos(links, l) /= 0 =>
                   LET i == LinkPos(links, l)
                       single == UpdateLinkQber(NetState, "sdn", TRUE, l,
                                                net_ret'.rate,
                                                net_ret'.attack_type).links[i]
                   IN  /\ links'[i].qber = single.qber
                       /\ links'[i].attack_type = single.attack_type
                       /\ links'[i].compromised = single.compromised
      ]_vars

(***************************************************************************)
(* SpecNetRace: two threads call update_link_qber of one controller.       *)
(* Neither controller takes a lock, so the statements of the two calls     *)
(* interleave; a step is one statement, or one whole _recompute_route.     *)
(* arg[t] holds the call's arguments, local[t] its local variables and     *)
(* at_call[t] the controller's state when the call was made.               *)
(***************************************************************************)
\* the step that follows the alert condition, the recomputation and the
\* append: NetworkManager recomputes, then appends the finished alert;
\* SDNController appends the alert, recomputes, then sets action_taken
AfterCheck(im) == IF im = "nm" THEN "recompute" ELSE "append"
AfterRecompute(im) == IF im = "nm" THEN "append" ELSE "action"
AfterAppend(im) == IF im = "nm" THEN "mark" ELSE "recompute"

InitNetRace ==
    /\ max_pool_size = DefaultPoolSize
    /\ EmptyPool
    /\ RaceIdle
    /\ KMFresh
    /\ impl \in Impls
    /\ LET st == BuildDefaultTopology(EvenLatencies, impl)
       IN  /\ nodes = st.nodes
           /\ links = st.links
           /\ active_routes = st.routes
           /\ alerts = st.alerts
           /\ eve = st.eve
    /\ smart_routing = TRUE
    /\ net_ops = 0
    /\ net_ret = NoNetRet

\* a thread calls update_link_qber(link_id, new_qber, attack_type)
NetRaceCall(t) ==
    /\ pc[t] = "idle"
    /\ \E link_id \in NetLinkInputs, inp \in UpdateInputs :
          arg' = [arg EXCEPT ![t] = [link_id |-> link_id, new_qber |-> inp[1],
                                     attack_type |-> inp[2]]]
    /\ at_call' = [at_call EXCEPT ![t] = NetState]
    /\ pc' = [pc EXCEPT ![t] = "get"]
    /\ UNCHANGED <<poolVars, kmVars, netVars, lock, local, result>>

\* lk = self._links.get(link_id); if lk is None: return;
\* previous_qber = lk.qber
NetRaceGet(t) ==
    /\ pc[t] = "get"
    /\ LET i == LinkPos(links, arg[t].link_id)
       IN  IF i = 0
           THEN /\ pc' = [pc EXCEPT ![t] = "done"]
                /\ UNCHANGED local
           ELSE /\ pc' = [pc EXCEPT ![t] = "write"]
                /\ local' = [local EXCEPT ![t] =
                                [pos |-> i, previous_qber |-> links[i].qber,
                                 threshold |-> "safe", new_path |-> <<>>,
                                 alert_pos |-> 0]]
    /\ UNCHANGED <<poolVars, kmVars, netVars, lock, arg, result, at_call>>

\* lk.qber = min(1.0, max(0.0, new_qber)); lk.attack_type = attack_type
NetRaceWrite(t) ==
    /\ pc[t] = "write"
    /\ links' = [links EXCEPT ![local[t].pos] =
                    [@ EXCEPT !.qber = Clamp(arg[t].new_qber),
                              !.attack_type = arg[t].attack_type]]
    /\ pc' = [pc EXCEPT ![t] = "flags"]
    /\ UNCHANGED <<poolVars, kmVars, impl, nodes, active_routes, alerts, eve,
                   smart_routing, net_ops, net_ret, lock, arg, local, result,
                   at_call>>

\* if lk.qber >= CRITICAL: lk.compromised = True ... : the rate is read
\* from the link again; SDNController takes threshold_str from it as well,
\* NetworkManager takes the threshold from new_qber
NetRaceFlags(t) ==
    /\ pc[t] = "flags"
    /\ LET lk == links[local[t].pos]
           q == IF impl = "sdn" THEN lk.qber ELSE arg[t].new_qber
       IN  /\ links' = [links EXCEPT ![local[t].pos].compromised =
                           CompromisedAfter(lk.qber, lk.compromised)]
           /\ local' = [local EXCEPT ![t].threshold =
                           IF q >= QBER_CRITICAL_THRESHOLD THEN "critical"
                           ELSE IF q >= QBER_WARNING_THRESHOLD THEN "warning"
                           ELSE "safe"]
    /\ pc' = [pc EXCEPT ![t] = "check"]
    /\ UNCHANGED <<poolVars, kmVars, impl, nodes, active_routes, alerts, eve,
                   smart_routing, net_ops, net_ret, lock, arg, result, at_call>>

\* if new_qber >= WARNING and previous_qber < WARNING:
NetRaceCheck(t) ==
    /\ pc[t] = "check"
    /\ pc' = [pc EXCEPT ![t] =
                IF AlertDue(arg[t].new_qber, local[t].previous_qber)
                THEN AfterCheck(impl) ELSE "done"]
    /\ UNCHANGED <<poolVars, kmVars, netVars, lock, arg, local, result, at_call>>

\* new_path = self._recompute_route("A", "B")
NetRaceRecompute(t) ==
    /\ pc[t] = "recompute"
    /\ LET path == RecomputedPath(nodes, links, "A", "B", impl, smart_routing)
       IN  /\ active_routes' = StoreRoute(NetState, "A", "B", impl, path).routes
           /\ local' = [local EXCEPT ![t].new_path = path]
    /\ pc' = [pc EXCEPT ![t] = AfterRecompute(impl)]
    /\ UNCHANGED <<poolVars, kmVars, impl, nodes, links, alerts, eve,
                   smart_routing, net_ops, net_ret, lock, arg, result, at_call>>

\* self._alerts.append(alert): NetworkManager's alert has its action_taken,
\* SDNController's has none yet
NetRaceAppend(t) ==
    /\ pc[t] = "append"
    /\ alerts' = Append(alerts,
                        [link_id |-> arg[t].link_id, qber |-> arg[t].new_qber,
                         previous_qber |-> local[t].previous_qber,
                         threshold |-> local[t].threshold,
                         action_taken |-> IF impl = "nm"
                                          THEN ActionTaken("nm", local[t].new_path)
                                          ELSE "",
                         attack_type |-> arg[t].attack_type])
    /\ local' = [local EXCEPT ![t].alert_pos = Len(alerts) + 1]
    /\ pc' = [pc EXCEPT ![t] = AfterAppend(impl)]
    /\ UNCHANGED <<poolVars, kmVars, impl, nodes, links, active_routes, eve,
                   smart_routing, net_ops, net_ret, lock, arg, result, at_call>>

\* alert.action_taken = ..., of SDNController
NetRaceAction(t) ==
    /\ pc[t] = "action"
    /\ alerts' = [alerts EXCEPT ![local[t].alert_pos].action_taken =
                     ActionTaken("sdn", local[t].new_path)]
    /\ pc' = [pc EXCEPT ![t] = "mark"]
    /\ UNCHANGED <<poolVars, kmVars, impl, nodes, links, active_routes, eve,
                   smart_routing, net_ops, net_ret, lock, arg, local, result,
                   at_call>>

\* if lk.compromised and lk.dst in self._nodes:
\*     self._nodes[lk.dst].compromised = True
NetRaceMark(t) ==
    /\ pc[t] = "mark"
    /\ LET lk == links[local[t].pos]
       IN  nodes' = IF lk.compromised /\ lk.dst \in DOMAIN nodes
                    THEN [nodes EXCEPT ![lk.dst].compromised = TRUE]
                    ELSE nodes
    /\ pc' = [pc EXCEPT ![t] = "done"]
    /\ UNCHANGED <<poolVars, kmVars, impl, links, active_routes, alerts, eve,
                   smart_routing, net_ops, net_ret, lock, arg, local, result,
                   at_call>>

NextNetRace ==
    \E t \in Threads :
        \/ NetRaceCall(t)
        \/ NetRaceGet(t)
        \/ NetRaceWrite(t)
        \/ NetRaceFlags(t)
        \/ NetRaceCheck(t)
        \/ NetRaceRecompute(t)
        \/ NetRaceAppend(t)
        \/ NetRaceAction(t)
        \/ NetRaceMark(t)

SpecNetRace == InitNetRace /\ [][NextNetRace]_vars

\* the state the call of thread t leaves when it runs alone from st
SerialCall(st, t) ==
    UpdateLinkQber(st, impl, smart_routing, arg[t].link_id, arg[t].new_qber,
                   arg[t].attack_type)

\* C18: when two update_link_qber calls were made on the same state of a
\* controller and both have returned, the links, nodes, route map and alert
\* log are those one of the two serial orders of the calls leaves; and while
\* one call is the only one made and has not returned, the links, nodes,
\* route map and alert log are those before the call or those after it
C18_UpdatesSerialisable ==
    /\ (\A t \in Threads : pc[t] = "done") /\ at_call[1] = at_call[2]
          => NetState \in {SerialCall(SerialCall(at_call[1], 1), 2),
                           SerialCall(SerialCall(at_call[1], 2), 1)}
    /\ \A t \in Threads :
          (pc[t] \notin {"idle", "done"} /\ \A o \in Threads \ {t} : pc[o] = "idle")
              => NetState \in {at_call[t], SerialCall(at_call[t], t)}

(***************************************************************************)
(* SpecSummarise: BB84Protocol.summarise applied to the sifted keys of a   *)
(* session                                                                 *)
(***************************************************************************)
\* sifted lengths: none, the shortest, the length at which 11 errors are
\* the rate 0.11, and the lengths around twice the 256 bits of the digest
SummariseLengths == {0, 1, 2, 3, 100, 511, 512, 514}

InitSummarise ==
    /\ max_pool_size = DefaultPoolSize
    /\ EmptyPool
    /\ RaceIdle
    /\ KMFresh
    /\ NetIdle

\* summarise() of a session of n sifted bits, e of them in error
SummariseSession ==
    /\ km_sessions = 0
    /\ \E n \in SummariseLengths : \E e \in 0..n : \E digest \in Digests :
          session' = Summarise(SiftedAlice(n), SiftedBob(n, e), digest)
    /\ km_sessions' = 1
    /\ UNCHANGED <<km_alerts, km_alert_id, engVars, poolVars, raceVars, netVars>>

NextSummarise == SummariseSession

SpecSummarise == InitSummarise /\ [][NextSummarise]_vars

\* the number of sifted bits of the session, and of those on which Alice
\* and Bob differ
SiftedLength == Len(session.sifted_key_alice)
SiftedErrors ==
    Cardinality({i \in 1..SiftedLength :
                    session.sifted_key_alice[i] /= session.sifted_key_bob[i]})

\* C19: the SessionResult of summarise has eve_detected exactly when the
\* errors among the sifted bits are more than 0.11 of them, and its final
\* key is empty when eve_detected is set
C19_DetectedIffAboveThreshold ==
    km_sessions = 1 =>
        /\ session.eve_detected <=>
              (SiftedLength > 0 /\ 100 * SiftedErrors > 11 * SiftedLength)
        /\ session.eve_detected => session.final_key = <<>>

\* C19's case: a session of 100 sifted bits with 12 errors was summarised
\* and is flagged, with no final key
C19_Witness ==
    /\ km_sessions = 1
    /\ SiftedLength = 100 /\ SiftedErrors = 12
    /\ session.eve_detected
    /\ session.final_key = <<>>

\* C20: the final key of a SessionResult that is not flagged has
\* min(floor(sifted length / 2), 256) bits, and a session without sifted bits
\* has the error rate 0, is not flagged and has an empty final key
C20_FinalKeyLength ==
    km_sessions = 1 =>
        /\ ~session.eve_detected =>
              Len(session.final_key) =
                  (IF SiftedLength \div 2 <= MaxFinalBits
                   THEN SiftedLength \div 2 ELSE MaxFinalBits)
        /\ SiftedLength = 0 =>
              /\ session.qber[1] = 0
              /\ ~session.eve_detected
              /\ session.final_key = <<>>

\* C20's case: a session of 514 sifted bits that is not flagged was
\* summarised, and its final key is the 256 bits of the digest
C20_Witness ==
    /\ km_sessions = 1
    /\ SiftedLength = 514
    /\ ~session.eve_detected
    /\ Len(session.final_key) = MaxFinalBits

(***************************************************************************)
(* The protocol engine: Qubit, NoiseModel and BB84Protocol.                *)
(* A probability is an integer per mille.  Each call of random is a coin   *)
(* the step is given: the set of values a coin can take is what the        *)
(* comparison with the probability allows, since random.random() returns   *)
(* a number of [0, 1).                                                     *)
(***************************************************************************)
\* probability 1.0 per mille
ProbOne == 1000
\* the None of an Optional[int] field of a PhotonRecord
NoBit == -1
\* Python's None where a Qubit, a PhotonRecord or nothing is returned
None == [none |-> TRUE]
Bits == {0, 1}
Bases == {"+", "x"}
\* the values of Qubit.random(): a random bit and a random basis
Qubits == [bit : Bits, basis : Bases]

\* the values random.random() < p can take
DrawsBelow(p) ==
    {b \in BOOLEAN : IF b THEN p > 0 ELSE p < ProbOne}

\* Qubit.measure: the bit when the bases match, else the coin of
\* random.randint(0, 1); the qubit is not written.  The variant never
\* returns the qubit's bit
MeasureCoin(qubit, measurement_basis, coin) == coin

Measure(qubit, measurement_basis, coin) ==
    IF qubit.basis = measurement_basis THEN qubit.bit ELSE coin

\* NoiseModel.apply: None for a lost photon; the variant flips every bit
NoiseApplyFlip(noise, qubit, coins) ==
    [bit |-> 1 - qubit.bit, basis |-> qubit.basis]

NoiseApply(noise, qubit, coins) ==
    IF coins.lost THEN None
    ELSE IF coins.depol THEN [bit |-> 1 - qubit.bit, basis |-> qubit.basis]
    ELSE IF coins.dark THEN coins.dark_qubit
    ELSE qubit

\* the coins _process_photon can be given by an engine; a coin that is not
\* drawn (Eve inactive or not intercepting, a photon already lost, flipped
\* or not replaced) has one value
Coins(eng) ==
    {c \in [intercept : IF eng.eve_active
                        THEN DrawsBelow(eng.eve_intercept_rate) ELSE {FALSE},
            eve_basis : Bases, eve_coin : Bits,
            lost : DrawsBelow(eng.noise.photon_loss),
            depol : DrawsBelow(eng.noise.depolarization),
            dark : DrawsBelow(eng.noise.dark_count),
            dark_qubit : Qubits, bob_coin : Bits] :
        /\ ~c.intercept => c.eve_basis = "+" /\ c.eve_coin = 0
        /\ c.lost => ~c.depol /\ c.bob_coin = 0
        /\ (c.lost \/ c.depol) => ~c.dark
        /\ ~c.dark => c.dark_qubit = [bit |-> 0, basis |-> "+"]}

\* PhotonRecord(index, alice_bit, alice_basis, eve_active) with its defaults
NewRecord(idx, alice_q, eve_active) ==
    [index |-> idx, alice_bit |-> alice_q.bit, alice_basis |-> alice_q.basis,
     eve_active |-> eve_active, eve_basis |-> "None", eve_bit |-> NoBit,
     lost |-> FALSE, bob_basis |-> "None", bob_bit |-> NoBit,
     bases_match |-> FALSE, is_error |-> FALSE]

\* BB84Protocol._process_photon; idx counts from 0
ProcessPhoton(eng, idx, alice_q, bob_basis, coins) ==
    LET record == NewRecord(idx, alice_q, eng.eve_active)
        intercepted == eng.eve_active /\ coins.intercept
        eve_bit == Measure(alice_q, coins.eve_basis, coins.eve_coin)
        record1 == IF intercepted
                   THEN [record EXCEPT !.eve_basis = coins.eve_basis,
                                       !.eve_bit = eve_bit]
                   ELSE record
        sent == IF intercepted
                THEN [bit |-> eve_bit, basis |-> coins.eve_basis]
                ELSE alice_q
        transmitted_q == NoiseApply(eng.noise, sent, coins)
    IN  IF transmitted_q = None
        THEN [record1 EXCEPT !.lost = TRUE, !.bob_basis = bob_basis]
        ELSE [record1 EXCEPT
                 !.bob_basis = bob_basis,
                 !.bob_bit = Measure(transmitted_q, bob_basis, coins.bob_coin),
                 !.bases_match = (alice_q.basis = bob_basis)]

\* BB84Protocol.__init__
NewEngine(key_length, noise, eve_active, eve_intercept_rate) ==
    [class |-> "BB84Protocol", key_length |-> key_length, noise |-> noise,
     eve_active |-> eve_active, eve_intercept_rate |-> eve_intercept_rate,
     alice_qubits |-> <<>>, bob_bases |-> <<>>, records |-> <<>>,
     step_index |-> 0, prepared |-> FALSE]

\* the lists prepare can draw: range(key_length) is empty for a length
\* below 1
QubitLists(key_length) == [1..key_length -> Qubits]
BasisLists(key_length) == [1..key_length -> Bases]

\* BB84Protocol.prepare with the qubits and bases drawn
Prepare(eng, qubits, bases) ==
    [eng EXCEPT !.alice_qubits = qubits, !.bob_bases = bases,
                !.records = <<>>, !.step_index = 0, !.prepared = TRUE]

\* the record step returns: None when the sequence is exhausted
StepRecord(eng, coins) ==
    IF eng.step_index >= eng.key_length THEN None
    ELSE ProcessPhoton(eng, eng.step_index, eng.alice_qubits[eng.step_index + 1],
                       eng.bob_bases[eng.step_index + 1], coins)

\* BB84Protocol.step after its call of prepare, if any; the variant does
\* not advance the index
StepKeepIndex(eng, coins) ==
    IF eng.step_index >= eng.key_length THEN eng
    ELSE [eng EXCEPT !.records = Append(@, StepRecord(eng, coins))]

Step(eng, coins) ==
    IF eng.step_index >= eng.key_length THEN eng
    ELSE [eng EXCEPT !.records = Append(@, StepRecord(eng, coins)),
                     !.step_index = @ + 1]

\* the records summarise sifts: not lost, and the bases match
Sifted(records) == SelectSeq(records, LAMBDA r : ~r.lost /\ r.bases_match)

\* the bits of the records, Alice's or Bob's
AliceBits(records) == [i \in 1..Len(records) |-> records[i].alice_bit]
BobBits(records) == [i \in 1..Len(records) |-> records[i].bob_bit]

\* summarise's writes to the records: r.is_error of each sifted record; the
\* variant keeps the sifted records only
SummarisedRecordsSifted(records) == Sifted(records)

SummarisedRecords(records) ==
    [i \in 1..Len(records) |->
        IF ~records[i].lost /\ records[i].bases_match
        THEN [records[i] EXCEPT !.is_error = (records[i].alice_bit /= records[i].bob_bit)]
        ELSE records[i]]

\* BB84Protocol.summarise: the SessionResult, with the digest drawn for the
\* privacy amplification
SummariseEngine(eng, digest) ==
    [key_length_requested |-> eng.key_length,
     raw_count |-> Len(eng.records),
     lost_count |-> Len(SelectSeq(eng.records, LAMBDA r : r.lost))]
        @@ Summarise(AliceBits(Sifted(eng.records)), BobBits(Sifted(eng.records)),
                     digest)

(***************************************************************************)
(* SpecEngine: one BB84Protocol and the calls of prepare, step and         *)
(* summarise on it, in any order                                           *)
(***************************************************************************)
NoNoise == [depolarization |-> 0, photon_loss |-> 0, dark_count |-> 0]
\* NoiseModel's defaults: 0.02, 0.05, 0.001
DefaultNoise == [depolarization |-> 20, photon_loss |-> 50, dark_count |-> 1]
\* probabilities below 0
NegativeNoise == [depolarization |-> -10, photon_loss |-> -10, dark_count |-> 0]
KeyLengthInputs == {0, 1, 2}
\* (noise_model, eve_active, eve_intercept_rate) of the engines constructed
EngineInputs ==
    { <<NoNoise, FALSE, ProbOne>>, <<DefaultNoise, FALSE, ProbOne>>,
      <<NegativeNoise, FALSE, ProbOne>>, <<NoNoise, TRUE, ProbOne>>,
      <<NoNoise, TRUE, 500>>, <<NoNoise, TRUE, 0>> }

InitEngine ==
    /\ max_pool_size = DefaultPoolSize
    /\ EmptyPool
    /\ RaceIdle
    /\ KMNew
    /\ NetIdle
    /\ \E key_length \in KeyLengthInputs, inp \in EngineInputs :
          engine = NewEngine(key_length, inp[1], inp[2], inp[3])
    /\ eng_ret = NoEngRet

\* prepare()
EnginePrepare ==
    /\ \E qubits \in QubitLists(engine.key_length),
          bases \in BasisLists(engine.key_length) :
          engine' = Prepare(engine, qubits, bases)
    /\ eng_ret' = [op |-> "prepare", out |-> None]
    /\ UNCHANGED <<session, km_sessions, km_alerts, km_alert_id, poolVars,
                   raceVars, netVars>>

\* step(): prepare() first when the engine is not prepared
EngineStep ==
    /\ \E qubits \in IF engine.prepared THEN {engine.alice_qubits}
                     ELSE QubitLists(engine.key_length),
          bases \in IF engine.prepared THEN {engine.bob_bases}
                    ELSE BasisLists(engine.key_length) :
          LET eng == IF engine.prepared THEN engine
                     ELSE Prepare(engine, qubits, bases)
          IN  \E coins \in Coins(eng) :
                  /\ engine' = Step(eng, coins)
                  /\ eng_ret' = [op |-> "step", out |-> StepRecord(eng, coins)]
    /\ UNCHANGED <<session, km_sessions, km_alerts, km_alert_id, poolVars,
                   raceVars, netVars>>

\* summarise()
EngineSummarise ==
    /\ \E digest \in Digests :
          eng_ret' = [op |-> "summarise", out |-> SummariseEngine(engine, digest)]
    /\ engine' = [engine EXCEPT !.records = SummarisedRecords(@)]
    /\ UNCHANGED <<session, km_sessions, km_alerts, km_alert_id, poolVars,
                   raceVars, netVars>>

NextEngine ==
    \/ EnginePrepare
    \/ EngineStep
    \/ EngineSummarise

SpecEngine == InitEngine /\ [][NextEngine]_vars

\* the engine is noiseless and has no eavesdropper
CleanEngine ==
    /\ ~engine.eve_active
    /\ engine.noise.depolarization = 0
    /\ engine.noise.photon_loss = 0
    /\ engine.noise.dark_count = 0

\* the positions of the engine's records that are sifted
SiftedPositions ==
    {i \in 1..Len(engine.records) :
        ~engine.records[i].lost /\ engine.records[i].bases_match}

\* C21: in a session of an engine without eavesdropper and with
\* depolarization, loss and dark counts at 0, no photon is lost, the receiver
\* bit of every sifted position is the sender bit, the error rate is exactly
\* 0 and the session is not flagged
C21_CleanSessionHasNoErrors ==
    CleanEngine =>
        /\ \A i \in 1..Len(engine.records) : ~engine.records[i].lost
        /\ \A i \in SiftedPositions :
              engine.records[i].bob_bit = engine.records[i].alice_bit
        /\ eng_ret.op = "summarise" =>
              /\ eng_ret.out.lost_count = 0
              /\ eng_ret.out.qber[1] = 0
              /\ ~eng_ret.out.eve_detected
              /\ eng_ret.out.sifted_key_bob = eng_ret.out.sifted_key_alice

\* C21's case: a clean engine ran its two photons, both are sifted, and the
\* run was summarised
C21_Witness ==
    /\ CleanEngine
    /\ eng_ret.op = "summarise"
    /\ eng_ret.out.raw_count = 2
    /\ SiftedPositions = {1, 2}
    /\ engine.records[1].alice_bit = 1

\* the state of an engine but for the flag that prepare was called
EngineState(eng) ==
    <<eng.key_length, eng.alice_qubits, eng.bob_bases, eng.records,
      eng.step_index>>

\* C30: the engine has as many records as steps done, between 0 and the key
\* length; the i-th record carries the index i and the bit and basis prepared
\* for the position i; and a step of an engine whose steps are all done
\* returns no record and leaves the engine as it is (an engine of length 0 on
\* which prepare was never called notes that it is prepared, and nothing else)
C30_RecordsFollowSteps ==
    /\ [](/\ Len(engine.records) = engine.step_index
          /\ 0 <= engine.step_index
          /\ engine.step_index <= engine.key_length
          /\ \A i \in 1..Len(engine.records) :
                /\ engine.records[i].index = i - 1
                /\ engine.records[i].alice_bit = engine.alice_qubits[i].bit
                /\ engine.records[i].alice_basis = engine.alice_qubits[i].basis)
    /\ [][(eng_ret'.op = "step" /\ engine.step_index = engine.key_length) =>
             /\ eng_ret'.out = None
             /\ EngineState(engine') = EngineState(engine)
             /\ engine.prepared => engine' = engine]_vars

\* C30's case: both photons of an engine were stepped, and one more step
\* returned no record
C30_Witness ==
    /\ engine.key_length = 2
    /\ engine.step_index = 2
    /\ Len(engine.records) = 2
    /\ eng_ret.op = "step"
    /\ eng_ret.out = None

(***************************************************************************)
(* SpecGenerate: KeyManager.generate_key with the session run by the       *)
(* engine it constructs from a KeyGenerationConfig                         *)
(***************************************************************************)
\* the key length requested of a session
RequestBits == 2

\* the NoiseModel generate_key constructs: the dark count rate keeps the
\* default of NoiseModel; the variant sets it to 0
KMNoiseDark0(cfg) ==
    [depolarization |-> cfg.noise_depol, photon_loss |-> cfg.noise_loss,
     dark_count |-> 0]

KMNoise(cfg) ==
    [depolarization |-> cfg.noise_depol, photon_loss |-> cfg.noise_loss,
     dark_count |-> DefaultNoise.dark_count]

\* the BB84Protocol generate_key constructs: attack_type is not passed on
KMProtocol(cfg) ==
    NewEngine(cfg.key_length, KMNoise(cfg), cfg.eve_active,
              cfg.eve_intercept_rate)

\* full_run's loop: step() until is_complete, on each of the engines the
\* draws so far can have led to
RECURSIVE RunToCompletion(_)
RunToCompletion(engs) ==
    IF \A e \in engs : e.step_index >= e.key_length THEN engs
    ELSE RunToCompletion(UNION {{Step(e, coins) : coins \in Coins(e)} :
                                   e \in {x \in engs : x.step_index < x.key_length}}
                         \cup {x \in engs : x.step_index >= x.key_length})

\* full_run before its summarise: the engines a run can end in
FullRun(eng) ==
    RunToCompletion({Prepare(eng, qubits, bases) :
                        qubits \in QubitLists(eng.key_length),
                        bases \in BasisLists(eng.key_length)})

\* the KeyGenerationConfig objects passed to generate_key
ConfigInputs ==
    [key_length : {0, RequestBits},
     noise_depol : {0}, noise_loss : {0},
     eve_active : {TRUE}, eve_intercept_rate : {ProbOne},
     attack_type : {"intercept_resend", "pns", "trojan_horse"}]
    \cup
    [key_length : {RequestBits},
     noise_depol : {0}, noise_loss : {0},
     eve_active : {TRUE}, eve_intercept_rate : {500},
     attack_type : {"pns"}]
    \cup
    [key_length : {0, RequestBits},
     noise_depol : {0, 20, -10}, noise_loss : {0},
     eve_active : {FALSE}, eve_intercept_rate : {ProbOne},
     attack_type : {"intercept_resend"}]

InitGenerate ==
    /\ max_pool_size = DefaultPoolSize
    /\ EmptyPool
    /\ RaceIdle
    /\ KMFresh
    /\ NetIdle

\* generate_key(KMPair, cfg)
KMGenerateFromConfig ==
    /\ km_sessions = 0
    /\ \E cfg \in ConfigInputs :
          \E eng \in FullRun(KMProtocol(cfg)) : \E digest \in Digests :
              /\ GenerateKey(KMPair, SummariseEngine(eng, digest))
              /\ engine' = [eng EXCEPT !.records = SummarisedRecords(@)]
              /\ eng_ret' = [op |-> "generate_key", config |-> cfg]
    /\ UNCHANGED <<side_calls, raceVars, netVars>>

NextGenerate ==
    \/ KMGenerateFromConfig

SpecGenerate == InitGenerate /\ [][NextGenerate]_vars

\* C22: a session generate_key runs for a request of RequestBits bits with
\* the noise settings of its configuration at 0 and no eavesdropper has
\* raw_count = RequestBits, lost_count = 0, the error rate 0 and is not
\* flagged
C22_CleanConfigCleanSession ==
    (/\ eng_ret.op = "generate_key"
     /\ eng_ret.config.key_length = RequestBits
     /\ eng_ret.config.noise_depol = 0
     /\ eng_ret.config.noise_loss = 0
     /\ ~eng_ret.config.eve_active) =>
        /\ session.raw_count = RequestBits
        /\ session.lost_count = 0
        /\ session.qber[1] = 0
        /\ ~session.eve_detected

\* C23: a session generate_key runs with an eavesdropper whose strategy is
\* photon-number splitting or Trojan horse, at any intercept probability and
\* with the noise settings at 0, has no error among its sifted bits, the
\* error rate 0 and is not flagged
C23_PassiveAttackNoError ==
    (/\ eng_ret.op = "generate_key"
     /\ eng_ret.config.eve_active
     /\ eng_ret.config.attack_type \in {"pns", "trojan_horse"}
     /\ eng_ret.config.noise_depol = 0
     /\ eng_ret.config.noise_loss = 0) =>
        /\ session.sifted_key_bob = session.sifted_key_alice
        /\ session.qber[1] = 0
        /\ ~session.eve_detected

\* C29: generate_key rejects a configuration with a negative probability or
\* the key length 0 before the session starts: no engine prepares a qubit,
\* no session is recorded and no key is stored
C29_BadConfigRejected ==
    (/\ eng_ret.op = "generate_key"
     /\ \/ eng_ret.config.key_length = 0
        \/ eng_ret.config.noise_depol < 0
        \/ eng_ret.config.noise_loss < 0
        \/ eng_ret.config.eve_intercept_rate < 0) =>
        /\ engine = NoEngine
        /\ km_sessions = 0
        /\ key_seq = 0

(***************************************************************************)
(* The eavesdropping strategies of attacks.py, applied to one qubit        *)
(***************************************************************************)
\* max(0.0, min(1.0, rate)) of the constructors
ClampRate(rate) == Max(0, Min(ProbOne, rate))

\* the values random.random() > p can take: random() can return 0.0
DrawsAbove(p) ==
    {b \in BOOLEAN : IF b THEN p < ProbOne ELSE p >= 0}

\* AttackRecord(attack_type) with its defaults
NewAttackRecord(attack_type) ==
    [attack_type |-> attack_type, intercepted |-> FALSE, eve_basis |-> "None",
     eve_bit |-> NoBit, basis_match |-> FALSE, split_photon |-> FALSE,
     pns_info_gain |-> 0, probe_reflected |-> FALSE,
     settings_leaked |-> FALSE, introduced_error |-> FALSE]

\* the constructors
NewInterceptResend(intercept_rate) ==
    [class |-> "InterceptResendAttack", intercept_rate |-> ClampRate(intercept_rate)]

NewPNS(multi_photon_rate, block_single_photon) ==
    [class |-> "PhotonNumberSplittingAttack",
     multi_photon_rate |-> ClampRate(multi_photon_rate),
     block_single_photon |-> block_single_photon]

NewTrojan(probe_success_rate, subsequent_intercept) ==
    [class |-> "TrojanHorseAttack",
     probe_success_rate |-> ClampRate(probe_success_rate),
     subsequent_intercept |-> subsequent_intercept]

\* InterceptResendAttack.apply with its draws: skip is random() > rate
InterceptResendApply(attack, qubit, skip, eve_basis, eve_coin) ==
    LET rec == NewAttackRecord("intercept_resend")
        eve_bit == Measure(qubit, eve_basis, eve_coin)
    IN  IF skip THEN [out |-> qubit, rec |-> rec]
        ELSE [out |-> [bit |-> eve_bit, basis |-> eve_basis],
              rec |-> [rec EXCEPT !.intercepted = TRUE,
                                  !.eve_basis = eve_basis,
                                  !.eve_bit = eve_bit,
                                  !.basis_match = (eve_basis = qubit.basis),
                                  !.introduced_error = (eve_basis /= qubit.basis)]]

\* PhotonNumberSplittingAttack.apply with its draw
PNSApply(attack, qubit, is_multi) ==
    LET rec == NewAttackRecord("pns")
    IN  IF is_multi
        THEN [out |-> qubit,
              rec |-> [rec EXCEPT !.intercepted = TRUE, !.split_photon = TRUE,
                                  !.pns_info_gain = ProbOne]]
        ELSE IF attack.block_single_photon
        THEN [out |-> None, rec |-> [rec EXCEPT !.intercepted = TRUE]]
        ELSE [out |-> qubit, rec |-> rec]

\* TrojanHorseAttack.apply with its draws; the variant measures in the
\* basis drawn for Eve, not in the qubit's
TrojanApplyDrawnBasis(attack, qubit, probe_reflected, eve_basis, eve_coin) ==
    LET rec == NewAttackRecord("trojan_horse")
        leaked == [rec EXCEPT !.intercepted = TRUE, !.probe_reflected = TRUE,
                              !.settings_leaked = TRUE,
                              !.eve_basis = qubit.basis, !.basis_match = TRUE]
        eve_bit == Measure(qubit, eve_basis, eve_coin)
    IN  IF probe_reflected /\ attack.subsequent_intercept
        THEN [out |-> [bit |-> eve_bit, basis |-> eve_basis],
              rec |-> [leaked EXCEPT !.eve_bit = eve_bit]]
        ELSE IF probe_reflected THEN [out |-> qubit, rec |-> leaked]
        ELSE [out |-> qubit, rec |-> rec]

TrojanApply(attack, qubit, probe_reflected, eve_basis, eve_coin) ==
    LET rec == NewAttackRecord("trojan_horse")
        leaked == [rec EXCEPT !.intercepted = TRUE, !.probe_reflected = TRUE,
                              !.settings_leaked = TRUE,
                              !.eve_basis = qubit.basis, !.basis_match = TRUE]
        eve_bit == Measure(qubit, qubit.basis, eve_coin)
    IN  IF probe_reflected /\ attack.subsequent_intercept
        THEN [out |-> [bit |-> eve_bit, basis |-> qubit.basis],
              rec |-> [leaked EXCEPT !.eve_bit = eve_bit]]
        ELSE IF probe_reflected THEN [out |-> qubit, rec |-> leaked]
        ELSE [out |-> qubit, rec |-> rec]

(***************************************************************************)
(* SpecAttack: one attack object and the calls of apply on it              *)
(***************************************************************************)
\* the rates passed to the constructors
AttackRateInputs == {-100, 0, 150, 400, ProbOne, 1500}

InitAttack ==
    /\ max_pool_size = DefaultPoolSize
    /\ EmptyPool
    /\ RaceIdle
    /\ KMNew
    /\ NetIdle
    /\ \E rate \in AttackRateInputs, flag \in BOOLEAN :
          engine \in {NewInterceptResend(rate), NewPNS(rate, flag),
                      NewTrojan(rate, flag)}
    /\ eng_ret = NoEngRet

\* the return of apply(qubit)
ApplyRet(qubit, returned) ==
    [op |-> "apply", qubit |-> qubit, out |-> returned.out, rec |-> returned.rec]

AttackInterceptResendApply ==
    /\ engine.class = "InterceptResendAttack"
    /\ \E qubit \in Qubits, skip \in DrawsAbove(engine.intercept_rate),
          eve_basis \in Bases, eve_coin \in Bits :
          eng_ret' = ApplyRet(qubit, InterceptResendApply(engine, qubit, skip,
                                                          eve_basis, eve_coin))
    /\ UNCHANGED <<engine, session, km_sessions, km_alerts, km_alert_id,
                   poolVars, raceVars, netVars>>

AttackPNSApply ==
    /\ engine.class = "PhotonNumberSplittingAttack"
    /\ \E qubit \in Qubits, is_multi \in DrawsBelow(engine.multi_photon_rate) :
          eng_ret' = ApplyRet(qubit, PNSApply(engine, qubit, is_multi))
    /\ UNCHANGED <<engine, session, km_sessions, km_alerts, km_alert_id,
                   poolVars, raceVars, netVars>>

AttackTrojanApply ==
    /\ engine.class = "TrojanHorseAttack"
    /\ \E qubit \in Qubits,
          probe_reflected \in DrawsBelow(engine.probe_success_rate),
          eve_basis \in Bases, eve_coin \in Bits :
          eng_ret' = ApplyRet(qubit, TrojanApply(engine, qubit, probe_reflected,
                                                 eve_basis, eve_coin))
    /\ UNCHANGED <<engine, session, km_sessions, km_alerts, km_alert_id,
                   poolVars, raceVars, netVars>>

NextAttack ==
    \/ AttackInterceptResendApply
    \/ AttackPNSApply
    \/ AttackTrojanApply

SpecAttack == InitAttack /\ [][NextAttack]_vars

\* C24: apply of the photon-number-splitting attack returns None or a qubit
\* with the bit and basis of the qubit it was given, apply of the
\* Trojan-horse attack always returns a qubit with that bit and basis, and
\* neither records an introduced error
C24_PassiveAttacksKeepQubit ==
    eng_ret.op = "apply" =>
        /\ engine.class = "PhotonNumberSplittingAttack" =>
              /\ \/ eng_ret.out = None
                 \/ /\ eng_ret.out.bit = eng_ret.qubit.bit
                    /\ eng_ret.out.basis = eng_ret.qubit.basis
              /\ ~eng_ret.rec.introduced_error
        /\ engine.class = "TrojanHorseAttack" =>
              /\ eng_ret.out /= None
              /\ eng_ret.out.bit = eng_ret.qubit.bit
              /\ eng_ret.out.basis = eng_ret.qubit.basis
              /\ ~eng_ret.rec.introduced_error

\* C24's case: the Trojan-horse attack had its probe reflected, measured the
\* qubit and re-emitted it
C24_Witness ==
    /\ eng_ret.op = "apply"
    /\ engine.class = "TrojanHorseAttack"
    /\ engine.subsequent_intercept
    /\ eng_ret.rec.probe_reflected
    /\ eng_ret.rec.eve_bit = 1
    /\ eng_ret.out = eng_ret.qubit

\* the draws of one intercepted photon that is neither lost nor hit by
\* noise: Eve's basis, the coin of her measurement, the coin of Bob's
EveCombos == [eve_basis : Bases, eve_coin : Bits, bob_coin : Bits]

\* the coins of _process_photon for such draws
CoinsOf(intercept, combo) ==
    [intercept |-> intercept, eve_basis |-> combo.eve_basis,
     eve_coin |-> combo.eve_coin, lost |-> FALSE, depol |-> FALSE,
     dark |-> FALSE, dark_qubit |-> [bit |-> 0, basis |-> "+"],
     bob_coin |-> combo.bob_coin]

\* the draws after which Bob's bit at the position i is not Alice's
WrongCombos(i, intercept) ==
    {combo \in EveCombos :
        ProcessPhoton(engine, i - 1, engine.alice_qubits[i], engine.bob_bases[i],
                      CoinsOf(intercept, combo)).bob_bit
            /= engine.alice_qubits[i].bit}

\* the draws after which Bob, measuring in the qubit's basis what the
\* intercept-resend attack returns, does not read the qubit's bit
WrongApplyCombos(qubit) ==
    {combo \in EveCombos :
        Measure(InterceptResendApply(NewInterceptResend(ProbOne), qubit, FALSE,
                                     combo.eve_basis, combo.eve_coin).out,
                qubit.basis, combo.bob_coin) /= qubit.bit}

\* C25: with an intercept-resend eavesdropper, no channel noise and the
\* bases of Alice and Bob matching, exactly one quarter of the equally likely
\* draws (Eve's basis, her measurement's coin, Bob's measurement's coin) of an
\* intercepted photon give Bob the wrong bit and none of a photon that is not
\* intercepted, so that the expected error among the sifted bits is the
\* intercept probability times 0.25
C25_InterceptQuarterWrong ==
    /\ (/\ engine.class = "BB84Protocol"
        /\ engine.prepared
        /\ engine.eve_active
        /\ engine.noise = NoNoise) =>
          \A i \in 1..engine.key_length :
              engine.alice_qubits[i].basis = engine.bob_bases[i] =>
                  /\ 4 * Cardinality(WrongCombos(i, TRUE)) = Cardinality(EveCombos)
                  /\ WrongCombos(i, FALSE) = {}
    /\ \A qubit \in Qubits :
          4 * Cardinality(WrongApplyCombos(qubit)) = Cardinality(EveCombos)

\* C25's case: an engine whose eavesdropper intercepts every photon stepped
\* a position with matching bases, Eve measured in the other basis and Bob
\* read the wrong bit
C25_Witness ==
    /\ engine.class = "BB84Protocol"
    /\ engine.eve_active
    /\ engine.eve_intercept_rate = ProbOne
    /\ engine.noise = NoNoise
    /\ Len(engine.records) >= 1
    /\ engine.records[1].bases_match
    /\ engine.records[1].eve_basis /= engine.records[1].alice_basis
    /\ engine.records[1].bob_bit /= engine.records[1].alice_bit

(***************************************************************************)
(* SpecMeasure: one Qubit (simulation/qubit.py) or one Photon              *)
(* (qkd_simulation.py) and the calls of measure on it                      *)
(***************************************************************************)
\* calls of measure on one object in one behaviour
MaxMeasures == 5

\* Qubit(bit, basis) and Photon(bit, basis)
NewQubit(bit, basis) == [class |-> "Qubit", bit |-> bit, basis |-> basis]
NewPhoton(bit, basis) == [class |-> "Photon", bit |-> bit, basis |-> basis]

\* Photon.encode
PhotonEncode(photon, bit, basis) ==
    [photon EXCEPT !.bit = bit, !.basis = basis]

\* the return of the count-th measure(basis) on the object that was `before`
MeasureRet(count, basis, value, before) ==
    [op |-> "measure", count |-> count, basis |-> basis, value |-> value,
     before |-> before]

MeasureCount == IF eng_ret.op = "measure" THEN eng_ret.count ELSE 0

InitMeasure ==
    /\ max_pool_size = DefaultPoolSize
    /\ EmptyPool
    /\ RaceIdle
    /\ KMNew
    /\ NetIdle
    /\ \E bit \in Bits, basis \in Bases :
          engine \in {NewQubit(bit, basis), NewPhoton(bit, basis)}
    /\ eng_ret = NoEngRet

\* Qubit.measure(measurement_basis): the qubit is not written
QubitMeasure ==
    /\ engine.class = "Qubit"
    /\ MeasureCount < MaxMeasures
    /\ \E measurement_basis \in Bases, coin \in Bits :
          eng_ret' = MeasureRet(MeasureCount + 1, measurement_basis,
                                Measure(engine, measurement_basis, coin), engine)
    /\ UNCHANGED <<engine, session, km_sessions, km_alerts, km_alert_id,
                   poolVars, raceVars, netVars>>

\* Photon.measure(basis): on a mismatch the photon is encoded with the
\* measured bit in the basis
PhotonMeasure ==
    /\ engine.class = "Photon"
    /\ MeasureCount < MaxMeasures
    /\ \E basis \in Bases, coin \in Bits :
          IF engine.basis = basis
          THEN /\ eng_ret' = MeasureRet(MeasureCount + 1, basis, engine.bit, engine)
               /\ engine' = engine
          ELSE /\ eng_ret' = MeasureRet(MeasureCount + 1, basis, coin, engine)
               /\ engine' = PhotonEncode(engine, coin, basis)
    /\ UNCHANGED <<session, km_sessions, km_alerts, km_alert_id,
                   poolVars, raceVars, netVars>>

NextMeasure ==
    \/ QubitMeasure
    \/ PhotonMeasure

SpecMeasure == InitMeasure /\ [][NextMeasure]_vars

\* C26: a measure in a basis that is not the qubit's leaves the qubit with
\* the measurement basis and with the bit v it returned, and the measure
\* that follows it in the same basis returns v; a measure in the qubit's
\* basis returns the qubit's bit and leaves the qubit as it was
C26_MismatchedMeasureReencodes ==
    [][(eng_ret'.op = "measure" /\ MeasureCount' = MeasureCount + 1) =>
          /\ eng_ret'.basis /= engine.basis =>
                /\ engine'.basis = eng_ret'.basis
                /\ engine'.bit = eng_ret'.value
          /\ eng_ret'.basis = engine.basis =>
                /\ eng_ret'.value = engine.bit
                /\ engine' = engine
          /\ (/\ eng_ret.op = "measure"
              /\ eng_ret.basis /= eng_ret.before.basis
              /\ eng_ret'.basis = eng_ret.basis) =>
                eng_ret'.value = eng_ret.value]_vars

(***************************************************************************)
(* Unknown link ids and unknown strategy names, under SpecNet              *)
(***************************************************************************)
\* the operations of the controllers that take link ids
LinkIdOps ==
    {"update_link_qber", "simulate_attack_on_link", "clear_link_attack",
     "poison_links", "simulate_attack", "clear_attack"}

\* the step's operation was given link ids, and none of them names a link
OnlyUnknownLinks ==
    /\ net_ret'.link_ids /= <<>>
    /\ \A l \in SeqToSet(net_ret'.link_ids) : LinkPos(links, l) = 0

\* C27: an operation that takes link ids and is given only ids that name no
\* link does not fail and leaves the links, the nodes, the stored routes, the
\* alert log and the eavesdropper status unchanged
C27_UnknownLinksNoOp ==
    [][(net_ops' = net_ops + 1 /\ OnlyUnknownLinks) =>
          /\ net_ret'.op /= "ValueError"
          /\ net_ret'.op \in LinkIdOps =>
                /\ links' = links
                /\ nodes' = nodes
                /\ active_routes' = active_routes
                /\ alerts' = alerts
                /\ eve' = eve
      ]_vars

\* the strategy names the controller's table of injected rates has
KnownStrategies(im) ==
    IF im = "nm"
    THEN {"intercept_resend", "pns", "trojan_horse", "noise_injection"}
    ELSE {"intercept_resend", "pns", "trojan_horse"}

\* C28: an attack injection with a strategy name the controller does not
\* know leaves the error rate, the compromised flag and the attack label of
\* the links it names, the stored routes and the alert log unchanged
C28_UnknownStrategyNoOp ==
    [][(/\ net_ops' = net_ops + 1
        /\ net_ret'.op \in {"simulate_attack_on_link", "simulate_attack"}
        /\ net_ret'.attack_type \notin KnownStrategies(impl)) =>
          /\ \A l \in SeqToSet(net_ret'.link_ids) :
                LinkPos(links, l) /= 0 =>
                    LET i == LinkPos(links, l)
                    IN  /\ links'[i].qber = links[i].qber
                        /\ links'[i].compromised = links[i].compromised
                        /\ links'[i].attack_type = links[i].attack_type
          /\ active_routes' = active_routes
          /\ alerts' = alerts
      ]_vars

(***************************************************************************)
(* SpecDrive: one engine driven by prepare, step and summarise, with the   *)
(* random outcomes of its steps since the last prepare kept in eng_ret, to *)
(* compare the result with the one full_run computes from them             *)
(***************************************************************************)
\* step's first statement: prepare() when the engine is not prepared
PreparedFor(eng, qubits, bases) ==
    IF eng.prepared THEN eng ELSE Prepare(eng, qubits, bases)

\* full_run's loop with the coins of its steps given
RECURSIVE RunWith(_, _)
RunWith(eng, draws) ==
    IF eng.step_index >= eng.key_length THEN eng
    ELSE RunWith(Step(eng, draws[eng.step_index + 1]), draws)

\* full_run with all its draws given: prepare, the loop, summarise
FullRunWith(eng, qubits, bases, draws, digest) ==
    SummariseEngine(RunWith(Prepare(eng, qubits, bases), draws), digest)

\* the engines driven: noisy, and with an eavesdropper on half the photons
DriveInputs ==
    { <<DefaultNoise, FALSE, ProbOne>>, <<NoNoise, TRUE, 500>> }

\* what eng_ret keeps of a call: the operation, what it returned, the coins
\* of the steps since the last prepare and the digest of the last summarise
DriveRet(op, out, draws, digest) ==
    [op |-> op, out |-> out, draws |-> draws, digest |-> digest]

InitDrive ==
    /\ max_pool_size = DefaultPoolSize
    /\ EmptyPool
    /\ RaceIdle
    /\ KMNew
    /\ NetIdle
    /\ \E key_length \in KeyLengthInputs, inp \in DriveInputs :
          engine = NewEngine(key_length, inp[1], inp[2], inp[3])
    /\ eng_ret = DriveRet("none", None, <<>>, <<>>)

\* prepare()
DrivePrepare ==
    /\ \E qubits \in QubitLists(engine.key_length),
          bases \in BasisLists(engine.key_length) :
          engine' = Prepare(engine, qubits, bases)
    /\ eng_ret' = DriveRet("prepare", None, <<>>, <<>>)
    /\ UNCHANGED <<session, km_sessions, km_alerts, km_alert_id, poolVars,
                   raceVars, netVars>>

\* step()
DriveStep ==
    /\ \E qubits \in IF engine.prepared THEN {engine.alice_qubits}
                     ELSE QubitLists(engine.key_length),
          bases \in IF engine.prepared THEN {engine.bob_bases}
                    ELSE BasisLists(engine.key_length) :
          LET eng == PreparedFor(engine, qubits, bases)
          IN  \E coins \in Coins(eng) :
                  /\ engine' = Step(eng, coins)
                  /\ eng_ret' =
                        DriveRet("step", StepRecord(eng, coins),
                                 IF eng.step_index >= eng.key_length
                                 THEN eng_ret.draws
                                 ELSE Append(eng_ret.draws, coins),
                                 <<>>)
    /\ UNCHANGED <<session, km_sessions, km_alerts, km_alert_id, poolVars,
                   raceVars, netVars>>

\* summarise()
DriveSummarise ==
    /\ \E digest \in Digests :
          eng_ret' = DriveRet("summarise", SummariseEngine(engine, digest),
                              eng_ret.draws, digest)
    /\ engine' = [engine EXCEPT !.records = SummarisedRecords(@)]
    /\ UNCHANGED <<session, km_sessions, km_alerts, km_alert_id, poolVars,
                   raceVars, netVars>>

NextDrive ==
    \/ DrivePrepare
    \/ DriveStep
    \/ DriveSummarise

SpecDrive == InitDrive /\ [][NextDrive]_vars

\* the engine as constructed, from the settings of the one driven
AsConstructed(eng) ==
    NewEngine(eng.key_length, eng.noise, eng.eve_active, eng.eve_intercept_rate)

\* C31: the SessionResult summarise returns for an engine driven through all
\* its steps is the one full_run returns for the same sender qubits, receiver
\* bases and random outcomes (raw and lost counts, both sifted keys, error
\* rate, detection flag and final key), and a step of a prepared engine
\* leaves the sender qubits and the receiver bases as prepared
C31_StepwiseAsFullRun ==
    /\ [](/\ eng_ret.op = "summarise"
          /\ engine.prepared
          /\ engine.step_index = engine.key_length
          => eng_ret.out = FullRunWith(AsConstructed(engine), engine.alice_qubits,
                                       engine.bob_bases, eng_ret.draws,
                                       eng_ret.digest))
    /\ [][(eng_ret'.op = "step" /\ engine.prepared) =>
             /\ engine'.alice_qubits = engine.alice_qubits
             /\ engine'.bob_bases = engine.bob_bases]_vars

\* C31's case: an engine was prepared, driven through its two steps, one of
\* them with an error on a sifted position, and summarised
C31_Witness ==
    /\ eng_ret.op = "summarise"
    /\ engine.prepared
    /\ engine.key_length = 2
    /\ engine.step_index = 2
    /\ Len(eng_ret.draws) = 2
    /\ eng_ret.out.raw_count = 2
    /\ Len(eng_ret.out.sifted_key_alice) = 2
    /\ eng_ret.out.qber[1] = 1

(***************************************************************************)
(* The compromised flag and the stored route, under SpecNet                *)
(***************************************************************************)
\* the path goes over the link with this id
PathUses(path, link_id) ==
    \E i \in 1..(Len(path) - 1) : <<path[i], path[i + 1]>> = link_id

\* C32: update_link_qber leaves a compromised link compromised when the new
\* rate is at or above the warning threshold, and then a route computation
\* that avoids compromised links does not use it; it leaves the link not
\* compromised when the new rate is below the warning threshold; and it
\* leaves a link that was not compromised so when the new rate is in the
\* warning band
C32_CompromisedHysteresis ==
    [][(/\ net_ops' = net_ops + 1
        /\ net_ret'.op = "update_link_qber"
        /\ LinkPos(links, net_ret'.link_ids[1]) /= 0) =>
          LET i == LinkPos(links, net_ret'.link_ids[1])
              rate == net_ret'.rate
          IN  /\ (links[i].compromised /\ rate >= QBER_WARNING_THRESHOLD) =>
                    /\ links'[i].compromised
                    /\ (impl = "sdn" \/ smart_routing) =>
                          ~PathUses(RecomputedPath(nodes', links', "A", "B", impl,
                                                   smart_routing),
                                    net_ret'.link_ids[1])
              /\ rate < QBER_WARNING_THRESHOLD => ~links'[i].compromised
              /\ (/\ ~links[i].compromised
                  /\ rate >= QBER_WARNING_THRESHOLD
                  /\ rate < QBER_CRITICAL_THRESHOLD) => ~links'[i].compromised
      ]_vars

\* C32's case: a link was compromised by one operation and then updated to
\* the warning threshold, and is still compromised
C32_Witness ==
    /\ net_ops = 2
    /\ net_ret.op = "update_link_qber"
    /\ net_ret.rate = QBER_WARNING_THRESHOLD
    /\ LinkPos(links, net_ret.link_ids[1]) /= 0
    /\ links[LinkPos(links, net_ret.link_ids[1])].qber = QBER_WARNING_THRESHOLD
    /\ links[LinkPos(links, net_ret.link_ids[1])].compromised

\* C34: when clear_all_attacks has returned, every link is not compromised,
\* has the attack label none and an error rate below the warning threshold,
\* and every node is not compromised
C34_ClearAllRestoresHealth ==
    net_ret.op = "clear_all_attacks" =>
        /\ \A i \in 1..Len(links) :
              /\ ~links[i].compromised
              /\ links[i].attack_type = "none"
              /\ links[i].qber < QBER_WARNING_THRESHOLD
        /\ \A n \in DOMAIN nodes : ~nodes[n].compromised

\* the links of the stored route from A to B that are compromised
CompromisedOnRoute ==
    {i \in 1..Len(links) :
        /\ links[i].compromised
        /\ PathUses(active_routes[<<"A", "B">>], LinkId(links[i]))}

\* the link-rate updates, attack injections, clearings and bulk poisonings,
\* and no operation yet
AttackOps ==
    {"none", "update_link_qber", "simulate_attack_on_link", "clear_link_attack",
     "poison_links", "random_poison", "clear_all_attacks", "simulate_attack",
     "clear_attack"}

\* C35: with adaptive routing enabled, after any sequence of link-rate
\* updates, attack injections, clearings and bulk poisonings the stored route
\* from A to B goes over no compromised link
C35_StoredRouteAvoidsCompromised ==
    [][(/\ CompromisedOnRoute = {}
        /\ net_ret.op \in AttackOps
        /\ net_ops' = net_ops + 1
        /\ net_ret'.op \in AttackOps
        /\ smart_routing /\ smart_routing') => CompromisedOnRoute' = {}]_vars

\* C36: the alert update_link_qber appends records as its new rate the rate
\* stored on the link after the update, and as its previous rate the rate
\* stored on the link before it
C36_AlertRecordsStoredRates ==
    [][(/\ net_ops' = net_ops + 1
        /\ net_ret'.op = "update_link_qber"
        /\ Len(alerts') = Len(alerts) + 1) =>
          LET alert == alerts'[Len(alerts')]
              i == LinkPos(links, alert.link_id)
          IN  /\ alert.link_id = net_ret'.link_ids[1]
              /\ alert.qber = links'[i].qber
              /\ alert.previous_qber = links[i].qber
      ]_vars

(***************************************************************************)
(* The id index and the pools of the key pool                              *)
(***************************************************************************)
\* the key ids of the pools of all the pairs
PooledKeys == UNION {SeqToSet(pools[p]) : p \in DOMAIN pools}

\* the number of the keys with this status, get_pool_status counts
CountWithStatus(keys, status) ==
    Cardinality({k \in keys : entries[k].status = status})

\* C37: the id index and the pools of the pairs hold the same entries: a key
\* id is in the index exactly when it is in the pool of its pair, so that the
\* counts of the pool status over all keys are the sums of the counts of the
\* pairs
C37_IndexMatchesPools ==
    /\ SeqToSet(all_keys) = PooledKeys
    /\ \A k \in PooledKeys : k \in SeqToSet(pools[entries[k].user_pair])
    /\ \A status \in {"active", "used", "compromised"} :
          CountWithStatus(SeqToSet(all_keys), status)
              = CountWithStatus(PooledKeys, status)

\* C38: every entry generate_key stores has a recorded error rate of at most
\* 0.11, and handle_qber_alert, which invalidates with the threshold 0.11,
\* changes the status of no entry, whatever rate it is given
C38_StoredKeysSurviveAlerts ==
    /\ [](\A k \in SeqToSet(all_keys) : ~QGt(entries[k].qber, <<11, 100>>))
    /\ [][ret'.op = "handle_qber_alert" =>
             \A k \in SeqToSet(all_keys) :
                 entries'[k].status = entries[k].status]_vars

\* C38's case: an alert with the rate 0.25 was handled while the pool holds
\* an Active key of a session with the rate 0.1, which is still Active
C38_Witness ==
    /\ ret.op = "handle_qber_alert"
    /\ ret.thr = <<1, 4>>
    /\ \E k \in SeqToSet(all_keys) :
          /\ entries[k].status = "active"
          /\ entries[k].qber = <<1, 10>>

\* C39: can_route_safely(src, dst) returns true exactly when the route
\* recomputation for (src, dst) returns a path that is not empty
C39_SafeQueryAgreesWithRoute ==
    net_ret.op = "can_route_safely"
        => (net_ret.result <=>
               RecomputedPath(nodes, links, net_ret.src, net_ret.dst, "sdn", TRUE)
                   /= <<>>)

(***************************************************************************)
(* SpecSim: one SimulationController, its timer and the calls of start,    *)
(* pause, resume, step_once and reset on it. engine holds the controller,  *)
(* eng_ret the signals of the last call, the number of session_complete    *)
(* emissions since the last start or reset, and whether a pause call has   *)
(* not been followed by a resume yet                                       *)
(***************************************************************************)
\* the emissions of session_complete a run counts up to
MaxCompletes == 2

\* hex(as_int)[2:].upper(): the digits of a number in base 16
HexChars == <<"0", "1", "2", "3", "4", "5", "6", "7", "8", "9",
              "A", "B", "C", "D", "E", "F">>
RECURSIVE HexDigits(_)
HexDigits(n) ==
    IF n < 16 THEN <<HexChars[n + 1]>>
    ELSE Append(HexDigits(n \div 16), HexChars[(n % 16) + 1])

\* SimulationController.__init__ with the settings the control panel wrote
NewController(key_length, noise, eve_active, eve_intercept_rate) ==
    [class |-> "SimulationController", protocol |-> None,
     session_result |-> None, sifted_alice |-> <<>>, sifted_bob |-> <<>>,
     error_count |-> 0, timer |-> FALSE,
     key_length |-> key_length, noise |-> noise, eve_active |-> eve_active,
     eve_intercept_rate |-> eve_intercept_rate]

\* BB84Protocol.is_complete
IsComplete(eng) == eng.step_index >= eng.key_length

\* what eng_ret keeps: the call, the signals it emitted in order, the last
\* PhotonEvent and SessionSummary emitted, the emissions of session_complete
\* since the last start or reset, and a pause not yet followed by a resume
SimRet(op, signals, event, summary, completes, paused) ==
    [op |-> op, signals |-> signals, event |-> event, summary |-> summary,
     completes |-> completes, paused |-> paused]

\* the SessionSummary _finish_session builds from a SessionResult
SessionSummary(res) ==
    [raw_count |-> res.raw_count, lost_count |-> res.lost_count,
     sifted_length |-> Len(res.sifted_key_alice), qber |-> res.qber,
     eve_detected |-> res.eve_detected,
     final_key_length |-> Len(res.final_key),
     final_key_hex |-> IF res.final_key /= <<>>
                       THEN HexDigits(BitsToInt(res.final_key))
                       ELSE <<>>]

\* the controller after _finish_session: summarise() marks the errors in
\* the protocol's records, the result is kept
FinishSession(ctl, digest) ==
    [ctl EXCEPT !.session_result = SummariseEngine(ctl.protocol, digest),
                !.protocol = [@ EXCEPT !.records = SummarisedRecords(@)]]

\* the running sifted-key counts of _on_tick after a record
Tally(ctl, record) ==
    IF ~record.lost /\ record.bases_match
    THEN [ctl EXCEPT !.sifted_alice = Append(@, record.alice_bit),
                     !.sifted_bob = Append(@, record.bob_bit),
                     !.error_count =
                         IF record.alice_bit /= record.bob_bit THEN @ + 1 ELSE @]
    ELSE ctl

\* the PhotonEvent of _on_tick: the record's position and the rolling counts
PhotonEvent(ctl, record) ==
    [index |-> record.index, total |-> ctl.protocol.key_length,
     lost |-> record.lost, bases_match |-> record.bases_match,
     rolling_qber |-> IF Len(ctl.sifted_alice) > 0
                      THEN <<ctl.error_count, Len(ctl.sifted_alice)>>
                      ELSE <<0, 1>>,
     sifted_count |-> Len(ctl.sifted_alice)]

\* the controller after _on_tick
OnTickController(ctl, coins, digest) ==
    IF ctl.protocol = None THEN [ctl EXCEPT !.timer = FALSE]
    ELSE IF StepRecord(ctl.protocol, coins) = None
    THEN FinishSession([ctl EXCEPT !.timer = FALSE], digest)
    ELSE Tally([ctl EXCEPT !.protocol = Step(@, coins)],
               StepRecord(ctl.protocol, coins))

\* the signals _on_tick emits, in order
OnTickSignals(ctl, coins) ==
    IF ctl.protocol = None THEN <<>>
    ELSE IF StepRecord(ctl.protocol, coins) = None
    THEN <<"session_complete", "log_message">>
    ELSE <<"photon_processed", "qber_updated", "progress_updated">>

\* _on_tick as a whole: the controller and what eng_ret keeps of the call
OnTick(op, ctl, coins, digest) ==
    LET after == OnTickController(ctl, coins, digest)
        signals == OnTickSignals(ctl, coins)
        finished == signals /= <<>> /\ signals[1] = "session_complete"
        stepped == signals /= <<>> /\ signals[1] = "photon_processed"
    IN  /\ engine' = after
        /\ eng_ret' =
              SimRet(op, signals,
                     IF stepped
                     THEN PhotonEvent(after, StepRecord(ctl.protocol, coins))
                     ELSE eng_ret.event,
                     IF finished THEN SessionSummary(after.session_result)
                     ELSE eng_ret.summary,
                     IF finished THEN eng_ret.completes + 1
                     ELSE eng_ret.completes,
                     eng_ret.paused)

\* the coins and the digest a tick can draw: none without a protocol
TickCoins(ctl) ==
    IF ctl.protocol = None THEN {CHOOSE c \in Coins(NewEngine(0, NoNoise, FALSE, ProbOne)) : TRUE}
    ELSE IF IsComplete(ctl.protocol)
    THEN {CHOOSE c \in Coins(ctl.protocol) : TRUE}
    ELSE Coins(ctl.protocol)
TickDigests(ctl) ==
    IF ctl.protocol /= None /\ IsComplete(ctl.protocol) THEN Digests
    ELSE {CHOOSE d \in Digests : TRUE}

\* the settings of the controllers run (key_length, noise, eve_active,
\* eve_intercept_rate): the controller's default noise 0.02, 0.05, 0.001 on
\* one photon, and two photons on a noiseless channel
SimInputs ==
    { <<1, DefaultNoise, FALSE, ProbOne>>, <<2, NoNoise, FALSE, ProbOne>> }

InitSim ==
    /\ max_pool_size = DefaultPoolSize
    /\ EmptyPool
    /\ RaceIdle
    /\ KMNew
    /\ NetIdle
    /\ \E inp \in SimInputs :
          engine = NewController(inp[1], inp[2], inp[3], inp[4])
    /\ eng_ret = SimRet("none", <<>>, None, None, 0, FALSE)

\* start(): nothing while the timer runs
SimStart ==
    /\ IF engine.timer
       THEN /\ engine' = engine
            /\ eng_ret' = [eng_ret EXCEPT !.op = "start", !.signals = <<>>]
       ELSE /\ \E qubits \in QubitLists(engine.key_length),
                  bases \in BasisLists(engine.key_length) :
                  engine' =
                     [engine EXCEPT
                         !.protocol =
                             Prepare(NewEngine(engine.key_length, engine.noise,
                                               engine.eve_active,
                                               engine.eve_intercept_rate),
                                     qubits, bases),
                         !.sifted_alice = <<>>, !.sifted_bob = <<>>,
                         !.error_count = 0, !.timer = TRUE]
            /\ eng_ret' = SimRet("start", <<"log_message">>, None, None, 0, FALSE)
    /\ UNCHANGED <<session, km_sessions, km_alerts, km_alert_id, poolVars,
                   raceVars, netVars>>

\* pause()
SimPause ==
    /\ engine' = [engine EXCEPT !.timer = FALSE]
    /\ eng_ret' = [eng_ret EXCEPT !.op = "pause", !.signals = <<"log_message">>,
                                  !.paused = TRUE]
    /\ UNCHANGED <<session, km_sessions, km_alerts, km_alert_id, poolVars,
                   raceVars, netVars>>

\* resume(): the timer restarts for a protocol that is not complete
SimResume ==
    /\ IF engine.protocol /= None /\ ~IsComplete(engine.protocol)
       THEN /\ engine' = [engine EXCEPT !.timer = TRUE]
            /\ eng_ret' = [eng_ret EXCEPT !.op = "resume",
                                          !.signals = <<"log_message">>,
                                          !.paused = FALSE]
       ELSE /\ engine' = engine
            /\ eng_ret' = [eng_ret EXCEPT !.op = "resume", !.signals = <<>>,
                                          !.paused = FALSE]
    /\ UNCHANGED <<session, km_sessions, km_alerts, km_alert_id, poolVars,
                   raceVars, netVars>>

\* step_once(): stop the timer, then one tick
SimStepOnce ==
    /\ eng_ret.completes < MaxCompletes
    /\ \E coins \in TickCoins(engine), digest \in TickDigests(engine) :
          OnTick("step_once", [engine EXCEPT !.timer = FALSE], coins, digest)
    /\ UNCHANGED <<session, km_sessions, km_alerts, km_alert_id, poolVars,
                   raceVars, netVars>>

\* reset()
SimReset ==
    /\ engine' = [engine EXCEPT !.timer = FALSE, !.protocol = None,
                                !.sifted_alice = <<>>, !.sifted_bob = <<>>,
                                !.error_count = 0]
    /\ eng_ret' = SimRet("reset", <<"simulation_reset", "log_message">>,
                         None, None, 0, FALSE)
    /\ UNCHANGED <<session, km_sessions, km_alerts, km_alert_id, poolVars,
                   raceVars, netVars>>

\* the timer's timeout, while the timer runs: _on_tick
SimTick ==
    /\ engine.timer
    /\ eng_ret.completes < MaxCompletes
    /\ \E coins \in TickCoins(engine), digest \in TickDigests(engine) :
          OnTick("timeout", engine, coins, digest)
    /\ UNCHANGED <<session, km_sessions, km_alerts, km_alert_id, poolVars,
                   raceVars, netVars>>

NextSim ==
    \/ SimStart
    \/ SimPause
    \/ SimResume
    \/ SimStepOnce
    \/ SimReset
    \/ SimTick

SpecSim == InitSim /\ [][NextSim]_vars

\* C33: between a start and the next start or reset, session_complete is
\* emitted once at most, and only when all photons have been processed
C33_SessionCompleteOnce ==
    /\ eng_ret.completes <= 1
    /\ eng_ret.completes > 0
          => engine.protocol /= None /\ IsComplete(engine.protocol)

(***************************************************************************)
(* SpecSimLive: one session on the controller, started once and neither    *)
(* reset nor stepped by hand. The timer's timeout fires again and again    *)
(* while the timer keeps being started (SF on SimTick), and a pause is     *)
(* followed by a resume (WF on SimResume)                                  *)
(***************************************************************************)
\* start() on a controller that has no session
LiveStart ==
    /\ engine.protocol = None
    /\ SimStart

NextSimLive ==
    \/ LiveStart
    \/ SimPause
    \/ SimResume
    \/ SimTick

SpecSimLive ==
    InitSim /\ [][NextSimLive]_vars /\ WF_vars(SimResume) /\ SF_vars(SimTick)

\* C40: a session that was started and is paused a finite number of times,
\* each pause followed by a resume, is eventually reported by
\* session_complete, wherever the pause and resume calls fall
C40_StartedSessionFinishes ==
    \/ []<><<SimPause>>_vars
    \/ (engine.protocol /= None) ~> (eng_ret.completes > 0)

====
